---- MODULE Spec2Model ----
(***************************************************************************)
(* Medicine-tracker: the offline action queue (services/offlineQueue.js,   *)
(* services/medicines.js), the markTaken edge function and the local       *)
(* reminder reconciliation engine (services/notifications.js).             *)
(*                                                                         *)
(* Time is counted in minutes of the device's local wall clock:            *)
(* now = day * 1440 + minute of day.  Seconds are not modelled; an instant *)
(* of the model stands for the start of that minute.                       *)
(***************************************************************************)
EXTENDS Integers, Sequences, FiniteSets, TLC

\* ------------------------------------------------------------------ bounds
Meds == {"m1", "m2"}                 \* medicine ids (UUIDs in the program)
Times == {2, 1200}                   \* schedule times: 00:02 and 20:00
MinuteMarks == {1, 1080, 1210}       \* minutes of day the clock may stop at
Offsets == {0, 330}                  \* device UTC offsets, minutes
Procs == {"p1", "p2"}                \* concurrent callers of the services
Handlers == {"h1", "h2"}             \* the auth-state-change events being handled
InitTimes == {{1200}}                \* schedules of the medicines at start
MaxDay == 2                          \* the clock runs over days 1..MaxDay
MaxQty == 2                          \* largest medicine quantity
MaxCalls == 3                        \* service calls made by the callers
MaxFailed == 1                       \* failing notification calls per pass
DoseAmount == 1                      \* medicine.unit_per_dose || 1
InitThreshold == 1                   \* refill_threshold of the medicines
DayMinutes == 1440
COOLDOWN == 1440
DefaultThreshold == 5
NoSlot == 0 - 1
None == 0 - 1

\* no stock evaluation in flight
NoEval == [pc |-> "idle", med |-> "none", class |-> "none", at |-> 0]

Kinds == {"pre", "due", "post"}
AllKinds == {"pre", "due", "post", "summary"}

VARIABLES
  now,            \* local wall clock, minutes
  tz,             \* the device's UTC offset, minutes (local = UTC + tz)
  medicines,      \* remote table medicines: id -> row
  logs,           \* remote table medicine_logs: set of rows
  live,           \* the OS's scheduled notifications (identifiers)
  tray,           \* delivered notifications still shown to the user
  sentKeys,       \* AsyncStorage keys notification_sent_<id>_<day> = 'true'
  lastStockAlert, \* AsyncStorage last_stock_alert_<med>
  lastOutOfStock, \* AsyncStorage last_out_of_stock_<med>
  alerts,         \* stock alerts emitted: [med, type, at]
  stockErrors,    \* per medicine: evaluations that logged 'Failed to send stock alerts'
  queueStore,     \* AsyncStorage medicine-tracker-offline-queue
  connected,      \* what the last connectivity probe answered
  stamp,          \* readings of Date.now() taken by enqueueAction
  calls,          \* service calls started so far
  pc,             \* per caller: position inside enqueueAction
  pend,           \* per caller: the action being enqueued
  qcopy,          \* per caller: the queue read at line 7
  ret,            \* per caller: what the last service call returned
  dpc,            \* processQueue: position
  dqueue,         \* processQueue: queue read at line 30
  didx,           \* processQueue: index of the next action
  dremaining,     \* processQueue: remaining
  dprocessed,     \* processQueue: processed
  doutcome,       \* processQueue: outcome of the remote call of each action
  dcalled,        \* processQueue: the actions handed to the processor, in call order
  dresult,        \* processQueue: returned value
  lastPass,       \* the reconciliation pass just run, NoPass after any other step
  gated,          \* history: <<id, local day>> skipped as already past
  marked,         \* history: <<id, local day>> recorded by a listener
  returned,       \* history: actions whose enqueueAction has returned
  applied,        \* history: actions whose processor call completed
  decrements,     \* history: quantity decrements per <<med, slot, day>>
  idArgs,         \* the (medicineId, time, kind) triples handed to getNotificationIds
  idOut,          \* the identifiers it returned for them
  summaries,      \* the OS's scheduled daily-summary-<user> notifications
  lastReschedule, \* AsyncStorage last_notification_reschedule, as its UTC date
  trigIn,         \* the schedule time whose triggers are computed
  trigOut,        \* the pre, due and post triggers computed for it
  stockEval,      \* per caller: position and locals inside checkAndSendStockAlerts
  hasCleaned,     \* AsyncStorage has_cleaned_legacy_notifications_v2
  rescheduleAttempted, \* AuthProvider's ref rescheduleAttempted.current
  loginPc         \* per auth event: position inside performCleanupAndReschedule

qvars == <<queueStore, connected, stamp, pc, pend, qcopy, dpc, dqueue, didx,
           dremaining, dprocessed, doutcome, dcalled, dresult, returned, applied>>
rvars == <<medicines, logs, decrements>>
nvars == <<live, tray, sentKeys, lastPass, gated, marked>>
svars == <<lastStockAlert, lastOutOfStock, alerts, stockErrors>>
ivars == <<idArgs, idOut>>
dvars == <<summaries, lastReschedule>>
tvars == <<trigIn, trigOut>>
lvars == <<hasCleaned, rescheduleAttempted, loginPc>>
avars == <<tvars, stockEval, lvars>>
vars == <<now, tz, calls, ret, qvars, rvars, nvars, svars, ivars, dvars, avars>>

\* ------------------------------------------------------------------ clock
LocalDay(t) == t \div DayMinutes
MinuteOfDay(t) == t % DayMinutes

\* todayKey: the date part of Date.toISOString(), i.e. the UTC date.
todayKey(t) == (t - tz) \div DayMinutes

\* new Date(); setHours(hour, minute, 0, 0): that time on the local today.
setHours(t, hour, minute) == LocalDay(t) * DayMinutes + hour * 60 + minute

\* ------------------------------------------------- notification identities
normalizeTimeId(time) == <<time \div 60, time % 60>>

NotifId(med, time, kind) == [med |-> med, time |-> normalizeTimeId(time), kind |-> kind]

getNotificationIds(med, time) == [k \in AllKinds |-> NotifId(med, time, k)]

\* ---------------------------------------- the identifiers as the strings built
\* A string is a sequence of one-character strings.
DigitChars == <<"0", "1", "2", "3", "4", "5", "6", "7", "8", "9">>

DigitValue(c) == CHOOSE d \in 0..9 : DigitChars[d + 1] = c

\* String.prototype.split on a one-character separator
RECURSIVE split(_, _)
split(text, sep) ==
  IF \A i \in 1..Len(text) : text[i] # sep THEN <<text>>
  ELSE LET i == CHOOSE j \in 1..Len(text) :
                  text[j] = sep /\ \A k \in 1..(j - 1) : text[k] # sep
       IN  <<SubSeq(text, 1, i - 1)>> \o split(SubSeq(text, i + 1, Len(text)), sep)

\* Number(text) of a string of decimal digits; Number('') is 0
RECURSIVE Number(_)
Number(text) ==
  IF text = <<>> THEN 0
  ELSE 10 * Number(SubSeq(text, 1, Len(text) - 1)) + DigitValue(text[Len(text)])

\* Number.prototype.toString of a natural number
RECURSIVE toString(_)
toString(n) ==
  IF n < 10 THEN <<DigitChars[n + 1]>>
  ELSE toString(n \div 10) \o <<DigitChars[(n % 10) + 1]>>

\* String.prototype.padStart with a one-character filler
RECURSIVE padStart(_, _, _)
padStart(text, length, filler) ==
  IF Len(text) >= length THEN text ELSE padStart(<<filler>> \o text, length, filler)

\* the time put into the identifier as it was given
normalizeTimeIdVerbatim(time) == time

\* normalizeTimeId on the string: split(':').map(Number), each part padStart(2, '0')
normalizeTimeIdText(time) ==
  LET parts == split(time, ":")
      h == Number(parts[1])
      m == Number(parts[2])
  IN  padStart(toString(h), 2, "0") \o <<":">> \o padStart(toString(m), 2, "0")

KindText(kind) ==
  CASE kind = "pre" -> <<"p", "r", "e">>
    [] kind = "due" -> <<"d", "u", "e">>
    [] kind = "post" -> <<"p", "o", "s", "t">>
    [] kind = "summary" -> <<"s", "u", "m", "m", "a", "r", "y">>

\* `${medicineId}-${normalizedTime}-${kind}` of getNotificationIds
getNotificationIdText(medicineId, time, kind) ==
  medicineId \o <<"-">> \o normalizeTimeIdText(time) \o <<"-">> \o KindText(kind)

\* String.prototype.includes
includes(text, part) ==
  \E i \in 0..(Len(text) - Len(part)) : SubSeq(text, i + 1, i + Len(part)) = part

\* generateUUID: 'xxxxxxxx-xxxx-4xxx-yxxx-xxxxxxxxxxxx' with x and y replaced
UUIDText(x, y) ==
  [i \in 1..36 |-> IF i \in {9, 14, 19, 24} THEN "-"
                   ELSE IF i = 15 THEN "4"
                   ELSE IF i = 20 THEN y ELSE x]

\* a filter that takes every scheduled notification for the medicine's
BelongsToAny(n, med) == TRUE

\* identifier.includes(medicineId): ids are UUIDs, so only the own prefix matches
BelongsTo(n, med) == n.med = med

\* ------------------------------------------------------ sent-state tracker
getSentKey(id, t) == <<id, todayKey(t)>>

hasNotificationBeenSentToday(id, t, keys) == getSentKey(id, t) \in keys

\* a listener that records nothing
markNothingAsSent(id, t, keys) == keys

markNotificationAsSentToday(id, t, keys) == keys \cup {getSentKey(id, t)}

\* -------------------------------------------------- dose reminder scheduler
\* a pre trigger that rolls over the hour but not the day
PreTriggerSameDay(time) ==
  LET hours == time \div 60
      minutes == time % 60
      m1 == minutes - 5
  IN  [hour |-> IF m1 < 0 THEN hours - 1 ELSE hours,
       minute |-> IF m1 < 0 THEN m1 + 60 ELSE m1]

\* The pre trigger: five minutes before, rolling over the hour and the day.
PreTrigger(time) ==
  LET hours == time \div 60
      minutes == time % 60
      m1 == minutes - 5
      preMinute == IF m1 < 0 THEN m1 + 60 ELSE m1
      h1 == IF m1 < 0 THEN hours - 1 ELSE hours
      preHour == IF h1 < 0 THEN h1 + 24 ELSE h1
  IN  [hour |-> preHour, minute |-> preMinute]

\* The post trigger: five minutes after, rolling over the hour and the day.
PostTrigger(time) ==
  LET hours == time \div 60
      minutes == time % 60
      m1 == minutes + 5
      postMinute == IF m1 >= 60 THEN m1 - 60 ELSE m1
      h1 == IF m1 >= 60 THEN hours + 1 ELSE hours
      postHour == IF h1 >= 24 THEN h1 - 24 ELSE h1
  IN  [hour |-> postHour, minute |-> postMinute]

DueTrigger(time) == [hour |-> time \div 60, minute |-> time % 60]

\* lines 510-523 for one time: the three triggers of the items
ScheduleTriggers ==
  /\ trigIn # None
  /\ trigOut = <<>>
  /\ trigOut' = [pre |-> PreTrigger(trigIn), due |-> DueTrigger(trigIn),
                 post |-> PostTrigger(trigIn)]
  /\ UNCHANGED <<now, tz, calls, ret, qvars, rvars, nvars, svars, ivars, dvars,
                 trigIn, stockEval, lvars>>

\* the items of one time with the per-medicine summary among them
ReminderItemsWithSummary(med, time) ==
  { [id |-> getNotificationIds(med, time)[k],
     trigger |-> IF k = "pre" THEN PreTrigger(time)
                 ELSE IF k = "due" THEN DueTrigger(time) ELSE PostTrigger(time)] :
    k \in AllKinds }

\* The three items scheduleAllRemindersForMedicine builds for one time.
ReminderItems(med, time) ==
  { [id |-> getNotificationIds(med, time)["pre"], trigger |-> PreTrigger(time)],
    [id |-> getNotificationIds(med, time)["due"], trigger |-> DueTrigger(time)],
    [id |-> getNotificationIds(med, time)["post"], trigger |-> PostTrigger(time)] }

AllItems(med, times) == UNION { ReminderItems(med, time) : time \in times }

\* today's trigger instant of an item, as the gate computes it
triggerDate(item, t) == setHours(t, item.trigger.hour, item.trigger.minute)

\* FLOOD PROTECTION 1: the time has passed for today
TimeHasPassed(item, t) == triggerDate(item, t) < t

\* FLOOD PROTECTION 2: the persistent sent flag
AlreadySent(item, t, keys) == hasNotificationBeenSentToday(item.id, t, keys)

\* notificationsToSchedule / expectedIds of one pass
notificationsToSchedule(med, times, t, keys) ==
  { item \in AllItems(med, times) :
      ~TimeHasPassed(item, t) /\ ~AlreadySent(item, t, keys) }

expectedIds(med, times, t, keys) ==
  { item.id : item \in notificationsToSchedule(med, times, t, keys) }

\* the items one pass leaves out because their time has passed
pastIds(med, times, t) ==
  { item.id : item \in { i \in AllItems(med, times) : TimeHasPassed(i, t) } }

\* step 3: the live notifications related to this medicine
medicineNotifications(med, liveIn) == { n \in liveIn : BelongsTo(n, med) }

\* step 4: the live notifications the pass cancels
Obsolete(med, times, t, keys, liveIn) ==
  { n \in medicineNotifications(med, liveIn) : n \notin expectedIds(med, times, t, keys) }

\* a pass that schedules every expected notification, live or not
MissingAlways(med, times, t, keys, liveIn) == expectedIds(med, times, t, keys)

\* step 5: the expected notifications the pass schedules
Missing(med, times, t, keys, liveIn) ==
  { id \in expectedIds(med, times, t, keys) : id \notin medicineNotifications(med, liveIn) }

\* The guard of lines 499-502: nothing to do for a medicine without times.
NothingToSchedule(times) == times = {}

\* One pass of scheduleAllRemindersForMedicine over liveIn.  listOk: the list
\* call succeeds; cancelOk: the cancels done before one fails (all of them when
\* none fails); schedOk: the schedule calls that succeed.
Reconcile(med, times, t, keys, liveIn, listOk, cancelOk, schedOk) ==
  LET obsolete == Obsolete(med, times, t, keys, liveIn)
      missing == Missing(med, times, t, keys, liveIn)
      base == [med |-> med, at |-> t, times |-> times, sched |-> {},
               cancel |-> {}, cancelCalls |-> 0, status |-> "skipped",
               live |-> liveIn]
  IN  IF NothingToSchedule(times) THEN base
      ELSE IF ~listOk THEN [base EXCEPT !.status = "threw"]
      ELSE IF cancelOk # obsolete
        THEN [base EXCEPT !.status = "threw", !.cancel = cancelOk,
                          !.cancelCalls = Cardinality(cancelOk) + 1,
                          !.live = liveIn \ cancelOk]
      ELSE [base EXCEPT !.status = IF missing \subseteq schedOk THEN "ok" ELSE "partial",
                        !.cancel = obsolete,
                        !.cancelCalls = Cardinality(obsolete),
                        !.sched = missing,
                        !.live = (liveIn \ obsolete) \cup (missing \cap schedOk)]

NoPass == [med |-> "none", at |-> 0, times |-> {}, sched |-> {}, cancel |-> {},
           cancelCalls |-> 0, status |-> "none", repeat |-> "none"]

\* What is kept of a pass: the calls it made, and in repeat the status of the
\* pass run immediately before it for the same medicine and schedule, if any.
PassEntry(r, previous) ==
  [med |-> r.med, at |-> r.at, times |-> r.times, sched |-> r.sched,
   cancel |-> r.cancel, cancelCalls |-> r.cancelCalls, status |-> r.status,
   repeat |-> IF previous.med = r.med /\ previous.times = r.times
                THEN previous.status ELSE "none"]

\* the schedule and cancel calls that fail in one pass are at most MaxFailed each
AlmostAll(S) == { T \in SUBSET S : Cardinality(S \ T) <= MaxFailed }

\* ------------------------------------------------- dose-taken cancellation
\* cancelDoseReminders cancels post, summary, due, pre in this order; the
\* first failing call ends it (caught and logged).  okCount calls succeed.
CancelOrder(med, time) ==
  << getNotificationIds(med, time)["post"], getNotificationIds(med, time)["summary"],
     getNotificationIds(med, time)["due"], getNotificationIds(med, time)["pre"] >>

\* a cancellation that stops after the post and summary reminders
cancelMissedOnly(med, time, okCount, liveIn) ==
  liveIn \ { CancelOrder(med, time)[i] : i \in 1..(IF okCount > 2 THEN 2 ELSE okCount) }

cancelDoseReminders(med, time, okCount, liveIn) ==
  liveIn \ { CancelOrder(med, time)[i] : i \in 1..okCount }

\* a cancellation whose failing call is thrown on to the caller
CancelThrowsOnFailure(okCount) == okCount < 4

\* lines 333-335: a failing cancel call is caught and logged, never thrown
CancelThrows(okCount) == FALSE

\* ------------------------------------------------------ stock alert monitor
\* a cooldown that still holds when exactly 24 hours have passed
CooldownInclusive(last, t) == last # None /\ (t - last) <= COOLDOWN

CooldownActive(last, t) == last # None /\ (t - last) < COOLDOWN

AlertId(med, type, t) == [med |-> med, time |-> <<todayKey(t), 0>>, kind |-> type]

\* medicine.refill_threshold || 5
Threshold(row) == IF row.threshold = 0 THEN DefaultThreshold ELSE row.threshold

\* checkAndSendStockAlerts with sendOutOfStockAlert / sendLowStockAlert inlined.
\* emitOk: Notifications.scheduleNotificationAsync succeeds.  The result is the
\* stock state after the evaluation.
checkAndSendStockAlerts(med, row, t, emitOk, st) ==
  IF CooldownActive(st.lsa[med], t) THEN st
  ELSE IF row.quantity = 0 THEN
    IF CooldownActive(st.loo[med], t)
      THEN [st EXCEPT !.lsa[med] = t]                 \* send returned null
    ELSE IF ~emitOk
      THEN [st EXCEPT !.errors[med] = @ + 1]          \* send threw
    ELSE [st EXCEPT !.loo[med] = t, !.lsa[med] = t,
                    !.alerts = @ \cup {[med |-> med, type |-> "out-of-stock", at |-> t]},
                    !.keys = markNotificationAsSentToday(AlertId(med, "out-of-stock", t), t, @),
                    !.tray = @ \cup {AlertId(med, "out-of-stock", t)}]
  ELSE IF row.quantity <= Threshold(row) /\ row.quantity > 0 THEN
    IF ~emitOk THEN [st EXCEPT !.errors[med] = @ + 1]
    ELSE [st EXCEPT !.lsa[med] = t,
                    !.alerts = @ \cup {[med |-> med, type |-> "low-stock", at |-> t]},
                    !.keys = markNotificationAsSentToday(AlertId(med, "low-stock", t), t, @),
                    !.tray = @ \cup {AlertId(med, "low-stock", t)}]
  ELSE st

StockState == [lsa |-> lastStockAlert, loo |-> lastOutOfStock, alerts |-> alerts,
               errors |-> stockErrors,
               keys |-> sentKeys, tray |-> tray]

\* One evaluation of checkAndSendStockAlerts on the medicine's current record,
\* as markDoseTaken makes it after a dose; emitOk: the notification call succeeds.
StockEvaluation(p, med, emitOk) ==
  LET r == checkAndSendStockAlerts(med, medicines[med], now, emitOk, StockState) IN
  /\ pc[p] = "idle"
  /\ calls < MaxCalls
  /\ medicines[med].exists
  /\ calls' = calls + 1
  /\ lastStockAlert' = r.lsa
  /\ lastOutOfStock' = r.loo
  /\ alerts' = r.alerts
  /\ stockErrors' = r.errors
  /\ sentKeys' = r.keys
  /\ tray' = r.tray
  /\ ret' = [ret EXCEPT ![p] = [op |-> "checkAndSendStockAlerts", med |-> med,
                                slot |-> NoSlot, status |-> "done"]]
  /\ lastPass' = NoPass
  /\ UNCHANGED <<now, tz, ivars, dvars, avars, rvars, live, gated, marked, qvars>>

\* ------------------------------ the stock evaluation, one request at a time
\* checkAndSendStockAlerts up to its first awaited send: the record handed in is
\* the medicine's current one, last_stock_alert_<id> is read (line 630) and the
\* class is decided (lines 634-658).
EvalStart(p, med) ==
  LET row == medicines[med]
      class == IF CooldownActive(lastStockAlert[med], now) THEN "none"
               ELSE IF row.quantity = 0 THEN "out-of-stock"
               ELSE IF row.quantity <= Threshold(row) /\ row.quantity > 0 THEN "low-stock"
               ELSE "none"
  IN
  /\ pc[p] = "idle"
  /\ stockEval[p].pc = "idle"
  /\ calls < MaxCalls
  /\ row.exists
  /\ calls' = calls + 1
  /\ stockEval' = [stockEval EXCEPT ![p] =
        IF class = "none" THEN NoEval
        ELSE [pc |-> "send", med |-> med, class |-> class, at |-> now]]
  /\ ret' = [ret EXCEPT ![p] = [op |-> "checkAndSendStockAlerts", med |-> med,
                                slot |-> NoSlot,
                                status |-> IF class = "none" THEN "done" ELSE "pending"]]
  /\ lastPass' = NoPass
  /\ UNCHANGED <<now, tz, ivars, dvars, tvars, lvars, rvars, live, tray, sentKeys,
                 gated, marked, svars, qvars>>

\* the cooldown key the send function of a class reads and writes
UsesOutOfStockKey(class) == class = "out-of-stock"

\* sendLowStockAlert / sendOutOfStockAlert: the read of the function's own
\* cooldown key (lines 206-212, 243-249); within the cooldown it returns null
EvalSendRead(p) ==
  LET e == stockEval[p]
      last == IF UsesOutOfStockKey(e.class) THEN lastOutOfStock[e.med]
              ELSE lastStockAlert[e.med]
  IN
  /\ e.pc = "send"
  /\ stockEval' = [stockEval EXCEPT ![p].pc =
        IF CooldownActive(last, now) THEN "stamp" ELSE "emit"]
  /\ lastPass' = NoPass
  /\ UNCHANGED <<now, tz, calls, ret, ivars, dvars, tvars, lvars, rvars, live, tray,
                 sentKeys, gated, marked, svars, qvars>>

\* Notifications.scheduleNotificationAsync with trigger null (lines 214-226,
\* 251-263); a throw is rethrown by the send function and caught at line 659
EvalEmit(p, emitOk) ==
  LET e == stockEval[p] IN
  /\ e.pc = "emit"
  /\ IF emitOk
       THEN /\ alerts' = alerts \cup {[med |-> e.med, type |-> e.class, at |-> now, by |-> p]}
            /\ tray' = tray \cup {AlertId(e.med, e.class, now)}
            /\ stockEval' = [stockEval EXCEPT ![p].pc = "record"]
            /\ UNCHANGED <<stockErrors, ret>>
       ELSE /\ stockErrors' = [stockErrors EXCEPT ![e.med] = @ + 1]
            /\ stockEval' = [stockEval EXCEPT ![p] = NoEval]
            /\ ret' = [ret EXCEPT ![p].status = "done"]
            /\ UNCHANGED <<alerts, tray>>
  /\ lastPass' = NoPass
  /\ UNCHANGED <<now, tz, calls, ivars, dvars, tvars, lvars, rvars, live, sentKeys,
                 gated, marked, lastStockAlert, lastOutOfStock, qvars>>

\* the send function's two writes after the emission (lines 228-230, 265-266)
EvalRecord(p) ==
  LET e == stockEval[p] IN
  /\ e.pc = "record"
  /\ IF UsesOutOfStockKey(e.class)
       THEN /\ lastOutOfStock' = [lastOutOfStock EXCEPT ![e.med] = now]
            /\ UNCHANGED lastStockAlert
       ELSE /\ lastStockAlert' = [lastStockAlert EXCEPT ![e.med] = now]
            /\ UNCHANGED lastOutOfStock
  /\ sentKeys' = markNotificationAsSentToday(AlertId(e.med, e.class, now), now, sentKeys)
  /\ stockEval' = [stockEval EXCEPT ![p].pc = "stamp"]
  /\ lastPass' = NoPass
  /\ UNCHANGED <<now, tz, calls, ret, ivars, dvars, tvars, lvars, rvars, live, tray,
                 gated, marked, alerts, stockErrors, qvars>>

\* lines 646 / 657: last_stock_alert_<id> is set to the now read at line 631
EvalStamp(p) ==
  LET e == stockEval[p] IN
  /\ e.pc = "stamp"
  /\ lastStockAlert' = [lastStockAlert EXCEPT ![e.med] = e.at]
  /\ stockEval' = [stockEval EXCEPT ![p] = NoEval]
  /\ ret' = [ret EXCEPT ![p].status = "done"]
  /\ lastPass' = NoPass
  /\ UNCHANGED <<now, tz, calls, ivars, dvars, tvars, lvars, rvars, live, tray, sentKeys,
                 gated, marked, lastOutOfStock, alerts, stockErrors, qvars>>

\* ------------------------------------------------------------ remote store
Max(a, b) == IF a >= b THEN a ELSE b

DoseKeys == Meds \X Times \X (1..MaxDay)

\* the instant of a wall-clock time today: d.setHours(hours); d.setMinutes(minutes)
scheduledTimestamp(time, t) == setHours(t, time \div 60, time % 60)

NewLog(med, sched, t) ==
  [id |-> Cardinality(logs) + 1, medicine_id |-> med, status |-> "taken",
   time_taken |-> t, time_scheduled |-> sched]

\* getLocalDayRange and the existing-log query: today's taken rows of the medicine
TodaysTakenRows(med, t) ==
  { r \in logs : r.medicine_id = med /\ r.status = "taken"
                 /\ LocalDay(r.time_taken) = LocalDay(t) }

\* .select(columns): the rows with the selected columns only
ExistingLogColumns == {"id"}

Select(rows, columns) == { [c \in columns |-> r[c]] : r \in rows }

\* existingLog.some(...): a row without time_scheduled never matches
alreadyTaken(existingLog, time) ==
  \E log \in existingLog :
     /\ "time_scheduled" \in DOMAIN log
     /\ MinuteOfDay(log.time_scheduled) = time

BumpDose(dec, med, time, day) ==
  IF <<med, time, day>> \in DOMAIN dec
    THEN [dec EXCEPT ![<<med, time, day>>] = @ + 1] ELSE dec

\* a decrement that is not clamped at zero
newQuantityUnclamped(row, quantity) == row.quantity - quantity

\* Math.max(0, (med.quantity || 0) - quantity)
newQuantity(row, quantity) == Max(0, row.quantity - quantity)

\* ------------------------------------------------------------ markDoseTaken
\* a validation that lets every time through
NotScheduledNever(row, time) == FALSE

\* !medicineData.times || !medicineData.times.includes(scheduledTime)
NotScheduled(row, time) == time \notin row.times

FailPoints == {"none", "session", "times", "insert", "fetchQty", "updateQty", "cache"}

\* The try block of markDoseTaken (lines 147-278) up to the point failAt where a
\* remote or storage call fails.  checkErr: the existing-log query fails (its
\* error is not looked at).  alertEval: "skip" when the re-read of the medicine
\* fails, "fail" when the alert cannot be emitted, "ok" otherwise.  okCount: the
\* cancel calls of cancelDoseReminders that succeed.
MarkDirect(med, time, failAt, checkErr, alertEval, okCount) ==
  LET row == medicines[med]
      base == [status |-> "fallback", logs |-> logs, medicines |-> medicines,
               stock |-> StockState, live |-> live, dec |-> decrements]
      withLog == [base EXCEPT !.logs = logs \cup {NewLog(med, scheduledTimestamp(time, now), now)}]
      withQty == [withLog EXCEPT
                    !.medicines[med].quantity = newQuantity(row, DoseAmount),
                    !.dec = BumpDose(decrements, med, time, LocalDay(now))]
      stocked == IF alertEval = "skip" THEN StockState
                 ELSE checkAndSendStockAlerts(med, withQty.medicines[med], now,
                                              alertEval = "ok", StockState)
      done == [withQty EXCEPT !.stock = stocked,
                              !.live = cancelDoseReminders(med, time, okCount, live),
                              !.status = IF failAt = "cache" \/ CancelThrows(okCount)
                                           THEN "fallback" ELSE "ok"]
  IN  IF failAt = "session" THEN base
      ELSE IF failAt = "times" \/ ~row.exists THEN base
      ELSE IF NotScheduled(row, time) THEN [base EXCEPT !.status = "not_scheduled"]
      ELSE IF ~checkErr /\ alreadyTaken(Select(TodaysTakenRows(med, now), ExistingLogColumns), time)
        THEN [base EXCEPT !.status = "already_taken"]
      ELSE IF failAt = "insert" THEN base
      ELSE IF failAt \in {"fetchQty", "updateQty"} THEN withLog
      ELSE done

NoAction == [type |-> "none", med |-> "none", slot |-> NoSlot, quantity |-> 0,
             times |-> {}, threshold |-> 0, createdAt |-> <<0, 0>>]

\* a queued action that does not carry the dose amount
MarkTakenActionNoQuantity(med, time) ==
  [NoAction EXCEPT !.type = "MARK_TAKEN", !.med = med, !.slot = time]

MarkTakenAction(med, time) ==
  [NoAction EXCEPT !.type = "MARK_TAKEN", !.med = med, !.slot = time,
                   !.quantity = DoseAmount]

UpsertAction(med, payload) ==
  [NoAction EXCEPT !.type = "UPSERT_MEDICINE", !.med = med, !.times = payload.times,
                   !.quantity = payload.quantity, !.threshold = payload.threshold]

Ret(p, op, med, slot, status) ==
  [ret EXCEPT ![p] = [op |-> op, med |-> med, slot |-> slot,
                      status |-> status]]

\* markDoseTaken({quantity, medicineId, scheduledTime}): the try block and, when
\* it threw anything but the two rejections, the catch block up to the call of
\* enqueueAction (which continues in EnqueueRead / EnqueueWrite).
MarkDoseTaken(p, med, time, failAt, checkErr, alertEval, okCount) ==
  LET r == MarkDirect(med, time, failAt, checkErr, alertEval, okCount) IN
  /\ pc[p] = "idle"
  /\ calls < MaxCalls
  /\ calls' = calls + 1
  /\ logs' = r.logs
  /\ medicines' = r.medicines
  /\ decrements' = r.dec
  /\ lastStockAlert' = r.stock.lsa
  /\ lastOutOfStock' = r.stock.loo
  /\ alerts' = r.stock.alerts
  /\ stockErrors' = r.stock.errors
  /\ sentKeys' = r.stock.keys
  /\ tray' = r.stock.tray
  /\ lastPass' = NoPass
  /\ IF r.status = "fallback"
       THEN /\ live' = cancelDoseReminders(med, time, okCount, r.live)
            /\ pc' = [pc EXCEPT ![p] = "enq_read"]
            /\ pend' = [pend EXCEPT ![p] = MarkTakenAction(med, time)]
            /\ ret' = Ret(p, "markDoseTaken", med, time, "pending")
       ELSE /\ live' = r.live
            /\ ret' = Ret(p, "markDoseTaken", med, time, r.status)
            /\ UNCHANGED <<pc, pend>>
  /\ UNCHANGED <<now, tz, ivars, dvars, avars, queueStore, connected, stamp, qcopy, dpc, dqueue, didx,
                 dremaining, dprocessed, doutcome, dcalled, dresult, returned, applied,
                 gated, marked>>

\* ------------------------------------------------------------- saveMedicine
Payloads == [times : SUBSET Times, quantity : {MaxQty}, threshold : {InitThreshold}]

RowOf(payload) ==
  [exists |-> TRUE, times |-> payload.times, quantity |-> payload.quantity,
   threshold |-> payload.threshold]

\* saveMedicine, lines 120-138: the upsert succeeds and the medicine's reminders
\* are reconciled; a failing pass is caught and logged.
SaveMedicineOnline(p, med, payload, listOk, cancelOk, schedOk) ==
  LET r == Reconcile(med, payload.times, now, sentKeys, live, listOk, cancelOk, schedOk) IN
  /\ pc[p] = "idle"
  /\ calls < MaxCalls
  /\ calls' = calls + 1
  /\ cancelOk \subseteq Obsolete(med, payload.times, now, sentKeys, live)
  /\ schedOk \subseteq Missing(med, payload.times, now, sentKeys, live)
  /\ medicines' = [medicines EXCEPT ![med] = RowOf(payload)]
  /\ live' = r.live
  /\ lastPass' = PassEntry(r, lastPass)
  /\ gated' = gated \cup
       (IF NothingToSchedule(payload.times) THEN {}
        ELSE { <<id, LocalDay(now)>> : id \in pastIds(med, payload.times, now) })
  /\ ret' = Ret(p, "saveMedicine", med, NoSlot, "ok")
  /\ UNCHANGED <<now, tz, ivars, dvars, avars, logs, decrements, tray, sentKeys, marked, svars, qvars>>

\* saveMedicine, lines 139-143: the upsert failed; the full record is queued.
SaveMedicineFallback(p, med, payload) ==
  /\ pc[p] = "idle"
  /\ calls < MaxCalls
  /\ calls' = calls + 1
  /\ pc' = [pc EXCEPT ![p] = "enq_read"]
  /\ pend' = [pend EXCEPT ![p] = UpsertAction(med, payload)]
  /\ ret' = Ret(p, "saveMedicine", med, NoSlot, "pending")
  /\ lastPass' = NoPass
  /\ UNCHANGED <<now, tz, ivars, dvars, avars, rvars, live, tray, sentKeys, gated, marked, svars,
                 queueStore, connected, stamp, qcopy, dpc, dqueue, didx, dremaining,
                 dprocessed, doutcome, dcalled, dresult, returned, applied>>

\* ------------------------------------------------------------ enqueueAction
\* line 7: const queue = await getQueue()
EnqueueRead(p) ==
  /\ pc[p] = "enq_read"
  /\ qcopy' = [qcopy EXCEPT ![p] = queueStore]
  /\ pc' = [pc EXCEPT ![p] = "enq_write"]
  /\ lastPass' = NoPass
  /\ UNCHANGED <<now, tz, ivars, dvars, avars, calls, ret, rvars, live, tray, sentKeys, gated, marked,
                 svars, queueStore, connected, stamp, pend, dpc, dqueue, didx,
                 dremaining, dprocessed, doutcome, dcalled, dresult, returned, applied>>

\* queue.push({...action, createdAt: Date.now()})
Pushed(queue, action, at, n) == Append(queue, [action EXCEPT !.createdAt = <<at, n>>])

\* lines 8-9: push and setItem; the caller then returns its offline result
EnqueueWrite(p) ==
  /\ pc[p] = "enq_write"
  /\ stamp' = stamp + 1
  /\ queueStore' = Pushed(qcopy[p], pend[p], now, stamp + 1)
  /\ returned' = returned \cup {[pend[p] EXCEPT !.createdAt = <<now, stamp + 1>>]}
  /\ pc' = [pc EXCEPT ![p] = "idle"]
  /\ pend' = [pend EXCEPT ![p] = NoAction]
  /\ qcopy' = [qcopy EXCEPT ![p] = <<>>]
  /\ ret' = [ret EXCEPT ![p].status = "offline"]
  /\ lastPass' = NoPass
  /\ UNCHANGED <<now, tz, ivars, dvars, avars, calls, rvars, live, tray, sentKeys, gated, marked, svars,
                 connected, dpc, dqueue, didx, dremaining, dprocessed, doutcome, dcalled,
                 dresult, applied>>

\* ------------------------------------------------------------- processQueue
\* a processQueue that goes on to read the queue whatever the probe answered
DrainProbeIgnored(isConnected) ==
  /\ dpc \in {"idle", "done"}
  /\ connected' = isConnected
  /\ dpc' = "read"
  /\ dqueue' = <<>>
  /\ didx' = 1
  /\ dremaining' = <<>>
  /\ dprocessed' = 0
  /\ doutcome' = <<>>
  /\ dcalled' = <<>>
  /\ dresult' = [processed |-> 0, remaining |-> <<>>]
  /\ lastPass' = NoPass
  /\ UNCHANGED <<now, tz, ivars, dvars, avars, calls, ret, rvars, live, tray, sentKeys, gated, marked,
                 svars, queueStore, stamp, pc, pend, qcopy, returned, applied>>

\* line 27: the connectivity probe
DrainProbe(isConnected) ==
  /\ dpc \in {"idle", "done"}
  /\ connected' = isConnected
  /\ dpc' = IF isConnected THEN "read" ELSE "offline"
  /\ dqueue' = <<>>
  /\ didx' = 1
  /\ dremaining' = <<>>
  /\ dprocessed' = 0
  /\ doutcome' = <<>>
  /\ dcalled' = <<>>
  /\ dresult' = [processed |-> 0, remaining |-> <<>>]
  /\ lastPass' = NoPass
  /\ UNCHANGED <<now, tz, ivars, dvars, avars, calls, ret, rvars, live, tray, sentKeys, gated, marked,
                 svars, queueStore, stamp, pc, pend, qcopy, returned, applied>>

\* line 28: return { processed: 0, remaining: await getQueue() }
DrainOffline ==
  /\ dpc = "offline"
  /\ dresult' = [processed |-> 0, remaining |-> queueStore]
  /\ dpc' = "done"
  /\ lastPass' = NoPass
  /\ UNCHANGED <<now, tz, ivars, dvars, avars, calls, ret, rvars, live, tray, sentKeys, gated, marked,
                 svars, queueStore, connected, stamp, pc, pend, qcopy, dqueue, didx,
                 dremaining, dprocessed, doutcome, dcalled, returned, applied>>

\* line 30: const queue = await getQueue()
DrainRead ==
  /\ dpc = "read"
  /\ dqueue' = queueStore
  /\ dpc' = "loop"
  /\ lastPass' = NoPass
  /\ UNCHANGED <<now, tz, ivars, dvars, avars, calls, ret, rvars, live, tray, sentKeys, gated, marked,
                 svars, queueStore, connected, stamp, pc, pend, qcopy, didx,
                 dremaining, dprocessed, doutcome, dcalled, dresult, returned, applied>>

\* What the remote call of the processor did: "ok" applied and answered, "error"
\* answered with an error result, "lost" applied but answered with an error
\* result (the response was lost), "throw" rejected.
Outcomes == {"ok", "error", "lost", "throw"}

AppliedRemotely(outcome) == outcome \in {"ok", "lost"}

\* syncOfflineQueue's processor awaits the remote call and does not look at the
\* result: it throws only when the call itself rejects.
ProcessorThrows(outcome) == outcome = "throw"

\* a processQueue that puts a failed action in front of the kept ones
KeepAfterReversed(remaining, action, threw) ==
  IF threw THEN <<action>> \o remaining ELSE remaining

\* lines 39-42: a throwing action is kept
KeepAfter(remaining, action, threw) == IF threw THEN Append(remaining, action) ELSE remaining

\* line 38
CountAfter(processed, threw) == IF threw THEN processed ELSE processed + 1

\* the markTaken edge function, lines 24-53 (no logId in a queued payload)
EdgeMarkTaken(action) ==
  LET med == action.med
      row == medicines[med]
  IN  /\ medicines' = [medicines EXCEPT ![med].quantity = newQuantity(row, action.quantity)]
      /\ logs' = logs \cup {NewLog(med, now, now)}
      /\ decrements' = BumpDose(decrements, med, action.slot, LocalDay(action.createdAt[1]))

\* supabase.from(medicines).upsert(action.payload)
RemoteUpsert(action) ==
  /\ medicines' = [medicines EXCEPT ![action.med] =
        [exists |-> TRUE, times |-> action.times, quantity |-> action.quantity,
         threshold |-> action.threshold]]
  /\ UNCHANGED <<logs, decrements>>

\* a loop that walks the queue from its end
ActionAtReversed(queue, idx) == queue[Len(queue) + 1 - idx]

\* for (const action of queue): the idx-th action of the iteration
ActionAt(queue, idx) == queue[idx]

\* lines 34-43: one turn of the loop, the processor called on the next action
DrainStep(outcome) ==
  LET action == ActionAt(dqueue, didx) IN
  /\ dpc = "loop"
  /\ didx <= Len(dqueue)
  /\ outcome = "ok" /\ action.type = "MARK_TAKEN" => medicines[action.med].exists
  /\ IF ~AppliedRemotely(outcome) THEN UNCHANGED rvars
     ELSE IF action.type = "UPSERT_MEDICINE" THEN RemoteUpsert(action)
     ELSE IF medicines[action.med].exists THEN EdgeMarkTaken(action)
     ELSE UNCHANGED rvars
  /\ doutcome' = Append(doutcome, outcome)
  /\ dcalled' = Append(dcalled, action)
  /\ dremaining' = KeepAfter(dremaining, action, ProcessorThrows(outcome))
  /\ dprocessed' = CountAfter(dprocessed, ProcessorThrows(outcome))
  /\ applied' = IF ProcessorThrows(outcome) THEN applied ELSE applied \cup {action}
  /\ didx' = didx + 1
  /\ lastPass' = NoPass
  /\ UNCHANGED <<now, tz, ivars, dvars, avars, calls, ret, live, tray, sentKeys, gated, marked, svars,
                 queueStore, connected, stamp, pc, pend, qcopy, dpc, dqueue, dresult,
                 returned>>

\* lines 45-46: persist remaining and return
DrainWrite ==
  /\ dpc = "loop"
  /\ didx > Len(dqueue)
  /\ queueStore' = dremaining
  /\ dresult' = [processed |-> dprocessed, remaining |-> dremaining]
  /\ dpc' = "done"
  /\ lastPass' = NoPass
  /\ UNCHANGED <<now, tz, ivars, dvars, avars, calls, ret, rvars, live, tray, sentKeys, gated, marked,
                 svars, connected, stamp, pc, pend, qcopy, dqueue, didx, dremaining,
                 dprocessed, doutcome, dcalled, returned, applied>>

\* ------------------------------------------------- saveMedicine's record id
\* a payload without an id: a new medicine
NoId == "none"

\* a record that always takes the generated id
RecordIdGenerated(payloadId, generated) == generated

\* id: payload.id ?? generateUUID()
RecordId(payloadId, generated) == IF payloadId # NoId THEN payloadId ELSE generated

\* saveMedicine(payload) for a signed-in user, lines 103-144.  payloadId: the id
\* the payload carries, if any; generated: what generateUUID() returns, an id
\* no medicine has; upsertOk: the upsert answers without error.
SaveMedicine(p, payloadId, generated, payload, upsertOk) ==
  /\ ~medicines[generated].exists
  /\ payloadId # NoId => medicines[payloadId].exists
  /\ IF upsertOk
       THEN SaveMedicineOnline(p, RecordId(payloadId, generated), payload, TRUE,
              Obsolete(RecordId(payloadId, generated), payload.times, now, sentKeys, live),
              Missing(RecordId(payloadId, generated), payload.times, now, sentKeys, live))
       ELSE SaveMedicineFallback(p, RecordId(payloadId, generated), payload)

\* ----------------------------------------------------------- deleteMedicine
\* cancelMedicineNotifications: the live notifications whose identifier includes
\* the medicine id are cancelled one by one; a failing list or cancel call ends
\* it (caught and logged).  cancelOk: the cancels done before one fails.
cancelMedicineNotifications(med, listOk, cancelOk, liveIn) ==
  IF listOk THEN liveIn \ cancelOk ELSE liveIn

\* a medicine row that has been deleted
NoRow == [exists |-> FALSE, times |-> {}, quantity |-> 0, threshold |-> 0]

\* deleteMedicine: the notifications are cancelled first, then the row is
\* deleted; deleteOk: the remote delete answers without error.
DeleteMedicine(p, med, listOk, cancelOk, deleteOk) ==
  /\ pc[p] = "idle"
  /\ calls < MaxCalls
  /\ calls' = calls + 1
  /\ cancelOk \subseteq medicineNotifications(med, live)
  /\ live' = cancelMedicineNotifications(med, listOk, cancelOk, live)
  /\ medicines' = IF deleteOk THEN [medicines EXCEPT ![med] = NoRow] ELSE medicines
  /\ ret' = Ret(p, "deleteMedicine", med, NoSlot, IF deleteOk THEN "ok" ELSE "error")
  /\ lastPass' = NoPass
  /\ UNCHANGED <<now, tz, ivars, dvars, avars, logs, decrements, tray, sentKeys, gated, marked, svars, qvars>>

\* ------------------------------------------------- the clock and the OS side
ClockInstants == { d * DayMinutes + m : d \in 1..MaxDay, m \in MinuteMarks }

TriggerOf(id) ==
  LET time == id.time[1] * 60 + id.time[2] IN
  CASE id.kind = "pre" -> PreTrigger(time)
    [] id.kind = "post" -> PostTrigger(time)
    [] OTHER -> DueTrigger(time)

\* the instants in (from, to] at which the daily repeating trigger of id fires
FireInstants(id, from, to) ==
  { f \in { d * DayMinutes + TriggerOf(id).hour * 60 + TriggerOf(id).minute :
            d \in LocalDay(from)..LocalDay(to) } : from < f /\ f <= to }

\* The clock advances to t; the OS delivers every live notification whose
\* trigger lies in between.  recv: the app is running, so that the received
\* listener (lines 392-401) marks each delivery with the date of its instant.
Tick(t, recv) ==
  LET fired == { id \in live : FireInstants(id, now, t) # {} } IN
  /\ t \in ClockInstants
  /\ t > now
  /\ now' = t
  /\ tray' = tray \cup fired
  /\ sentKeys' = IF recv
       THEN sentKeys \cup UNION { { getSentKey(id, f) : f \in FireInstants(id, now, t) } : id \in fired }
       ELSE sentKeys
  /\ marked' = IF recv
       THEN marked \cup UNION { { <<id, LocalDay(f)>> : f \in FireInstants(id, now, t) } : id \in fired }
       ELSE marked
  /\ lastPass' = NoPass
  /\ UNCHANGED <<tz, ivars, dvars, avars, calls, ret, rvars, live, gated, svars, qvars>>

\* The user taps a delivered notification: the response listener (lines 403-412)
\* marks it as sent today.
NotificationResponse(id) ==
  /\ id \in tray
  /\ tray' = tray \ {id}
  /\ sentKeys' = markNotificationAsSentToday(id, now, sentKeys)
  /\ marked' = marked \cup {<<id, LocalDay(now)>>}
  /\ lastPass' = NoPass
  /\ UNCHANGED <<now, tz, ivars, dvars, avars, calls, ret, rvars, live, gated, svars, qvars>>

\* ------------------------------------------------ reschedule of all medicines
Users == {"u1", "u2"}

\* the request scheduleDailySummaryIfMissing hands to scheduleLocalReminder
DailySummary(user) ==
  [user |-> user, trigger |-> [hour |-> 21, minute |-> 0], repeats |-> TRUE]

\* the for loop of lines 705-708 over the fetched rows, in the order fetched:
\* one pass per medicine; a pass that throws ends the loop
RECURSIVE ReschedulePasses(_, _, _, _)
ReschedulePasses(order, listOk, liveIn, gatedIn) ==
  IF order = <<>> THEN [live |-> liveIn, gated |-> gatedIn, threw |-> FALSE]
  ELSE LET med == Head(order)
           times == medicines[med].times
           r == Reconcile(med, times, now, sentKeys, liveIn, listOk[med],
                          Obsolete(med, times, now, sentKeys, liveIn),
                          Missing(med, times, now, sentKeys, liveIn))
           g == gatedIn \cup
                  (IF NothingToSchedule(times) THEN {}
                   ELSE { <<id, LocalDay(now)>> : id \in pastIds(med, times, now) })
       IN  IF r.status = "threw"
             THEN [live |-> r.live, gated |-> gatedIn, threw |-> TRUE]
             ELSE ReschedulePasses(Tail(order), listOk, r.live, g)

\* the rows of the user, in an order the select may return them
FetchOrders ==
  LET rows == { m \in Meds : medicines[m].exists } IN
  { order \in UNION { [1..n -> rows] : n \in 0..Cardinality(rows) } :
      /\ Len(order) = Cardinality(rows)
      /\ \A i, j \in 1..Len(order) : i # j => order[i] # order[j] }

\* rescheduleAllMedicineNotifications for the signed-in user.  fetchOk: the
\* select succeeds; listOk: per medicine, the pass gets the scheduled list;
\* summaryListOk, summaryOk: the list and schedule calls of the daily summary
\* succeed (a failure there is caught and logged, and the stamp is still set).
RescheduleEffects(p, user, order, fetchOk, listOk, summaryListOk, summaryOk) ==
  LET r == ReschedulePasses(order, listOk, live, gated)
      ranToday == lastReschedule # None /\ lastReschedule = todayKey(now)
      ran == ~ranToday /\ fetchOk /\ order # <<>>
  IN
  /\ pc[p] = "idle"
  /\ calls < MaxCalls
  /\ calls' = calls + 1
  /\ order \in FetchOrders
  /\ live' = IF ran THEN r.live ELSE live
  /\ gated' = IF ran THEN r.gated ELSE gated
  /\ summaries' =
       IF ran /\ ~r.threw /\ summaryListOk /\ summaryOk
            /\ ~(\E s \in summaries : s.user = user)
         THEN summaries \cup {DailySummary(user)}
         ELSE summaries
  /\ lastReschedule' = IF ran /\ ~r.threw THEN todayKey(now) ELSE lastReschedule
  /\ ret' = [ret EXCEPT ![p] =
               [op |-> "rescheduleAll", med |-> "none", slot |-> NoSlot,
                status |-> IF ranToday THEN "skipped"
                           ELSE IF ran /\ ~r.threw THEN "ok" ELSE "error"]]
  /\ lastPass' = NoPass
  /\ UNCHANGED <<now, tz, ivars, tvars, stockEval, rvars, tray, sentKeys, marked, svars, qvars>>

\* the same called on its own (app start): the login handler is not involved
RescheduleAll(p, user, order, fetchOk, listOk, summaryListOk, summaryOk) ==
  /\ RescheduleEffects(p, user, order, fetchOk, listOk, summaryListOk, summaryOk)
  /\ UNCHANGED lvars

\* --------------------------------------------- the auth-state-change handler
\* onAuthStateChange delivers an event to the handler (lines 30-61).  With a
\* session performCleanupAndReschedule starts and suspends at its first await;
\* without one the ref is reset (line 59).
AuthEvent(h, signedIn) ==
  /\ loginPc[h] \in {"idle", "done"}
  /\ IF signedIn
       THEN /\ loginPc' = [loginPc EXCEPT ![h] = "read_flag"]
            /\ UNCHANGED rescheduleAttempted
       ELSE /\ loginPc' = [loginPc EXCEPT ![h] = "done"]
            /\ rescheduleAttempted' = FALSE
  /\ lastPass' = NoPass
  /\ UNCHANGED <<now, tz, calls, ret, ivars, dvars, tvars, stockEval, hasCleaned, rvars,
                 live, tray, sentKeys, gated, marked, svars, qvars>>

\* line 40: const hasCleaned = await AsyncStorage.getItem(...)
LoginReadFlag(h) ==
  /\ loginPc[h] = "read_flag"
  /\ loginPc' = [loginPc EXCEPT ![h] = IF hasCleaned THEN "resched" ELSE "cancel_all"]
  /\ lastPass' = NoPass
  /\ UNCHANGED <<now, tz, calls, ret, ivars, dvars, tvars, stockEval, hasCleaned,
                 rescheduleAttempted, rvars, live, tray, sentKeys, gated, marked, svars,
                 qvars>>

\* line 43: await Notifications.cancelAllScheduledNotificationsAsync(); a throw
\* is caught at line 52 and ends the handler
LoginCancelAll(h, cancelOk) ==
  /\ loginPc[h] = "cancel_all"
  /\ live' = IF cancelOk THEN {} ELSE live
  /\ summaries' = IF cancelOk THEN {} ELSE summaries
  /\ loginPc' = [loginPc EXCEPT ![h] = IF cancelOk THEN "set_flag" ELSE "done"]
  /\ lastPass' = NoPass
  /\ UNCHANGED <<now, tz, calls, ret, ivars, lastReschedule, tvars, stockEval, hasCleaned,
                 rescheduleAttempted, rvars, tray, sentKeys, gated, marked, svars, qvars>>

\* line 44: await AsyncStorage.setItem('has_cleaned_legacy_notifications_v2', 'true')
LoginSetFlag(h) ==
  /\ loginPc[h] = "set_flag"
  /\ hasCleaned' = TRUE
  /\ loginPc' = [loginPc EXCEPT ![h] = "resched"]
  /\ lastPass' = NoPass
  /\ UNCHANGED <<now, tz, calls, ret, ivars, dvars, tvars, stockEval, rescheduleAttempted,
                 rvars, live, tray, sentKeys, gated, marked, svars, qvars>>

\* lines 48-51: the reschedule, once per session
LoginReschedule(h, p, user, order, fetchOk, listOk, summaryListOk, summaryOk) ==
  /\ loginPc[h] = "resched"
  /\ loginPc' = [loginPc EXCEPT ![h] = "done"]
  /\ UNCHANGED hasCleaned
  /\ IF rescheduleAttempted
       THEN /\ lastPass' = NoPass
            /\ UNCHANGED <<now, tz, calls, ret, ivars, dvars, tvars, stockEval,
                           rescheduleAttempted, rvars, live, tray, sentKeys, gated, marked,
                           svars, qvars>>
       ELSE /\ rescheduleAttempted' = TRUE
            /\ RescheduleEffects(p, user, order, fetchOk, listOk, summaryListOk, summaryOk)

\* clearNotificationStateOnLogout.  listOk: the list of scheduled notifications
\* is obtained (otherwise the outer catch ends the function); kept: the
\* scheduled notifications whose cancel call failed, each failure swallowed.
Logout(p, listOk, kept) ==
  /\ pc[p] = "idle"
  /\ calls < MaxCalls
  /\ calls' = calls + 1
  /\ kept \subseteq live
  /\ Cardinality(kept) <= MaxFailed
  /\ live' = IF listOk THEN kept ELSE live
  /\ summaries' = IF listOk THEN {} ELSE summaries
  /\ tray' = IF listOk THEN {} ELSE tray
  /\ sentKeys' = IF listOk THEN {} ELSE sentKeys
  /\ lastStockAlert' = IF listOk THEN [m \in Meds |-> None] ELSE lastStockAlert
  /\ lastReschedule' = IF listOk THEN None ELSE lastReschedule
  /\ ret' = [ret EXCEPT ![p] = [op |-> "logout", med |-> "none", slot |-> NoSlot,
                                status |-> IF listOk THEN "ok" ELSE "error"]]
  /\ lastPass' = NoPass
  /\ UNCHANGED <<now, tz, ivars, avars, rvars, gated, marked, lastOutOfStock, alerts,
                 stockErrors, qvars>>

\* ------------------------------------------------------------ specifications
InitRow(times) ==
  [exists |-> TRUE, times |-> times, quantity |-> MaxQty, threshold |-> InitThreshold]

\* getNotificationIds has not been handed anything
NoIdCall == idArgs = <<>> /\ idOut = <<>>

\* no schedule time has been handed to the trigger arithmetic
NoTriggerCall == trigIn = None /\ trigOut = <<>>

InitCommon ==
  /\ logs = {}
  /\ live = {}
  /\ tray = {}
  /\ sentKeys = {}
  /\ lastStockAlert = [m \in Meds |-> None]
  /\ lastOutOfStock = [m \in Meds |-> None]
  /\ alerts = {}
  /\ stockErrors = [m \in Meds |-> 0]
  /\ summaries = {}
  /\ lastReschedule = None
  /\ queueStore = <<>>
  /\ connected = TRUE
  /\ stamp = 0
  /\ calls = 0
  /\ pc = [p \in Procs |-> "idle"]
  /\ pend = [p \in Procs |-> NoAction]
  /\ qcopy = [p \in Procs |-> <<>>]
  /\ ret = [p \in Procs |-> [op |-> "none", med |-> "none",
                             slot |-> NoSlot, status |-> "none"]]
  /\ dpc = "idle"
  /\ dqueue = <<>>
  /\ didx = 1
  /\ dremaining = <<>>
  /\ dprocessed = 0
  /\ doutcome = <<>>
  /\ dcalled = <<>>
  /\ dresult = [processed |-> 0, remaining |-> <<>>]
  /\ lastPass = NoPass
  /\ gated = {}
  /\ marked = {}
  /\ returned = {}
  /\ applied = {}
  /\ decrements = [k \in DoseKeys |-> 0]
  /\ stockEval = [p \in Procs |-> NoEval]
  /\ hasCleaned = FALSE
  /\ rescheduleAttempted = FALSE
  /\ loginPc = [h \in Handlers |-> "idle"]

\* The queue and the dose services, at 18:00 of day 1 on a UTC device.
InitQueue ==
  /\ NoIdCall
  /\ NoTriggerCall
  /\ now = DayMinutes + 1080
  /\ tz = 0
  /\ medicines \in [Meds -> { InitRow(ts) : ts \in InitTimes }]
  /\ InitCommon

\* The failing calls of one pass: the list call, the cancels done before one
\* fails, the schedule calls that succeed.
SaveOnline(p, med, payload) ==
  \E listOk \in BOOLEAN :
    \E cancelOk \in AlmostAll(Obsolete(med, payload.times, now, sentKeys, live)),
       schedOk \in AlmostAll(Missing(med, payload.times, now, sentKeys, live)) :
      SaveMedicineOnline(p, med, payload, listOk, cancelOk, schedOk)

\* the same with every call of the pass succeeding
SaveOnlineOk(p, med, payload) ==
  SaveMedicineOnline(p, med, payload, TRUE,
                     Obsolete(med, payload.times, now, sentKeys, live),
                     Missing(med, payload.times, now, sentKeys, live))

\* the edit saved while offline: a second time, 00:02, is added
QueuePayloads == { pl \in Payloads : pl.times = {2, 1200} }

\* The queue under concurrent callers: every direct call fails before it has
\* changed the remote store (the device is offline or the request is refused),
\* so each call goes through enqueueAction, and drains run in between.
NextQueue ==
  \/ \E p \in Procs : MarkDoseTaken(p, "m1", 1200, "insert", FALSE, "ok", 4)
  \/ \E p \in Procs, payload \in QueuePayloads : SaveMedicineFallback(p, "m1", payload)
  \/ \E p \in Procs : EnqueueRead(p)
  \/ \E p \in Procs : EnqueueWrite(p)
  \/ \E isConnected \in BOOLEAN : DrainProbe(isConnected)
  \/ DrainOffline
  \/ DrainRead
  \/ \E outcome \in Outcomes : DrainStep(outcome)
  \/ DrainWrite

SpecQueue == InitQueue /\ [][NextQueue]_vars

\* The dose services of one caller: markDoseTaken with a call failing at any
\* point, schedule edits, and drains of what was queued.
NextDose ==
  \/ \E time \in Times, failAt \in FailPoints, checkErr \in BOOLEAN :
       \E alertEval \in {"fail", "ok"}, okCount \in {0, 4} :
         MarkDoseTaken("p1", "m1", time, failAt, checkErr, alertEval, okCount)
  \/ \E payload \in { pl \in Payloads : pl.times = {1200} } : SaveOnlineOk("p1", "m1", payload)
  \/ EnqueueRead("p1")
  \/ EnqueueWrite("p1")
  \/ \E isConnected \in BOOLEAN : DrainProbe(isConnected)
  \/ DrainOffline
  \/ DrainRead
  \/ \E outcome \in Outcomes : DrainStep(outcome)
  \/ DrainWrite

SpecDose == InitQueue /\ [][NextDose]_vars

\* The reminder engine: the clock runs, notifications are delivered and tapped,
\* schedules are edited online.
InitRecon ==
  /\ NoIdCall
  /\ NoTriggerCall
  /\ now = DayMinutes + 1
  /\ tz \in Offsets
  /\ medicines \in [Meds -> { InitRow(ts) : ts \in InitTimes }]
  /\ InitCommon

\* schedule edits of the reminder engine: no time, 00:02 alone or 20:00 alone
ReconPayloads == { pl \in Payloads : Cardinality(pl.times) <= 1 }

NextRecon ==
  \/ \E payload \in ReconPayloads : SaveOnline("p1", "m1", payload)
  \/ \E t \in ClockInstants, recv \in BOOLEAN : Tick(t, recv)
  \/ \E id \in { n \in tray : n.kind = "due" } : NotificationResponse(id)

SpecRecon == InitRecon /\ [][NextRecon]_vars

\* ------------------------------------------------------------------ claims
Range(seq) == { seq[i] : i \in 1..Len(seq) }

RECURSIVE ThrownOf(_, _)
\* the subsequence of queue whose processor call threw, in the original order
ThrownOf(queue, outcomes) ==
  IF queue = <<>> THEN <<>>
  ELSE IF outcomes[1] = "throw"
    THEN <<queue[1]>> \o ThrownOf(Tail(queue), Tail(outcomes))
    ELSE ThrownOf(Tail(queue), Tail(outcomes))

CompletedOf(outcomes) == Cardinality({ i \in 1..Len(outcomes) : outcomes[i] # "throw" })

ConnectedDrainDone == dpc = "done" /\ connected

\* C1: after a connected drain, an action of the queue read at its start is
\* absent from the queue the drain persisted if and only if its remote
\* application was confirmed successful; one whose remote application answered
\* with an error result, or was rejected, is still in the queue.
C1_RemovedIffConfirmed ==
  ConnectedDrainDone =>
    \A i \in 1..Len(dqueue) :
      (dqueue[i] \notin Range(dresult.remaining)) <=> (doutcome[i] = "ok")

\* C2: a connected processQueue persists and returns as the new queue exactly
\* the subsequence of the queue it read made of the actions whose processor call
\* threw, in their original order, and returns as processed the number of
\* actions whose processor call completed.
C2_KeepsExactlyThrown ==
  [][(dpc = "loop" /\ dpc' = "done") =>
       /\ queueStore' = ThrownOf(dqueue, doutcome)
       /\ dresult' = [processed |-> CompletedOf(doutcome),
                      remaining |-> ThrownOf(dqueue, doutcome)]]_vars

\* three actions, the second failing: only the second is left
C2_Witness ==
  /\ ConnectedDrainDone
  /\ Len(dqueue) = 3
  /\ doutcome = <<"ok", "throw", "ok">>
  /\ queueStore = <<dqueue[2]>>
  /\ dresult.processed = 2

\* C3: when the probe answers disconnected the drain is a no-op: the processor
\* is never called, the persisted queue and the remote store are unchanged and
\* the result is processed = 0 with the full queue as remaining.
C3_DisconnectedNoOp ==
  [][/\ (dpc \in {"idle", "done"} /\ dpc' # dpc /\ ~connected') => dpc' = "offline"
     /\ (dpc = "offline" /\ dpc' # dpc) =>
          /\ dpc' = "done"
          /\ doutcome' = <<>>
          /\ queueStore' = queueStore
          /\ dresult' = [processed |-> 0, remaining |-> queueStore]
          /\ UNCHANGED rvars]_vars

C3_Witness ==
  /\ dpc = "done"
  /\ ~connected
  /\ Len(queueStore) >= 2
  /\ dresult = [processed |-> 0, remaining |-> queueStore]
  /\ doutcome = <<>>

\* C4: every action whose enqueueAction has returned is in the persisted queue
\* until a processor call for it has completed without error, whatever the
\* interleaving of enqueueAction with processQueue or another enqueueAction.
C4_AtLeastOnce ==
  \A a \in returned : a \in Range(queueStore) \/ a \in applied

\* today's taken rows of one dose, by the slot they were recorded for
TakenLogsOf(med, slot, day) ==
  { r \in logs : /\ r.medicine_id = med
                 /\ r.status = "taken"
                 /\ LocalDay(r.time_scheduled) = day
                 /\ MinuteOfDay(r.time_scheduled) = slot }

\* C5: after any sequence of markDoseTaken calls and drains the remote store
\* holds at most one taken log per (medicine, slot, day), and the quantity has
\* been decremented at most once for that dose.
C5_NoDoubleApplication ==
  \A k \in DoseKeys :
    /\ Cardinality(TakenLogsOf(k[1], k[2], k[3])) <= 1
    /\ decrements[k] <= 1

\* a markDoseTaken call of caller p1 for (med, time) starts in this step
DirectCall(med, time) ==
  /\ calls' = calls + 1
  /\ ret'["p1"].op = "markDoseTaken"
  /\ ret'["p1"].med = med
  /\ ret'["p1"].slot = time

\* C6: when a taken log of today exists for (M, T), a further direct
\* markDoseTaken(M, T) inserts no log and leaves the quantity unchanged, and is
\* rejected as already taken (calls whose requests fail before the check is
\* reached, and therefore are queued, are left aside).
C6_SecondMarkRejected ==
  [][\A med \in Meds, time \in Times :
       (TakenLogsOf(med, time, LocalDay(now)) # {} /\ DirectCall(med, time)) =>
          /\ logs' = logs
          /\ medicines' = medicines
          /\ decrements' = decrements
          /\ ret'["p1"].status \in {"already_taken", "pending"}]_vars

\* the pass just run made all its notification calls successfully
PassSucceeded == lastPass.status \in {"ok", "skipped"}

\* C7: after a pass for M in which every notification call succeeded, the live
\* notifications of M are exactly the desired ones: the pre, due and post
\* identities of M's times whose trigger today is not before now and whose
\* sent-today record is not true.
C7_LiveEqualsDesired ==
  PassSucceeded =>
    medicineNotifications(lastPass.med, live)
      = expectedIds(lastPass.med, lastPass.times, lastPass.at, sentKeys)

C9_NoRescheduleSameDay ==
  \A id \in lastPass.sched : <<id, LocalDay(lastPass.at)>> \notin marked

\* C10: a pass does not schedule an identity whose trigger today is already
\* before now; and an identity left out for that reason yesterday, not recorded
\* as sent today, is live after a successful pass run today before its trigger.
C10_FutureOnlyGate ==
  \A item \in AllItems(lastPass.med, lastPass.times) :
    /\ TimeHasPassed(item, lastPass.at) => item.id \notin lastPass.sched
    /\ ( /\ lastPass.status = "ok"
         /\ <<item.id, LocalDay(lastPass.at) - 1>> \in gated
         /\ <<item.id, LocalDay(lastPass.at)>> \notin marked
         /\ ~TimeHasPassed(item, lastPass.at) ) => item.id \in live

\* the due identity of a slot
DueId(med, time) == getNotificationIds(med, time)["due"]

\* the slot has a taken log on that day
MarkedTaken(med, time, day) == TakenLogsOf(med, time, day) # {}

\* C11: a due reminder is never silently dropped: when the clock passes the
\* trigger instant of due(M, T) on a day on which T is in M's schedule and the
\* slot is not marked taken, due(M, T) is live, whatever passes ran before (here
\* for the reminders that were delivered the day before and that a pass of that
\* day then left out as already past).
C11_DueLiveAtTrigger ==
  [][\A med \in Meds, time \in Times, day \in 1..MaxDay :
       ( /\ now < day * DayMinutes + time
         /\ day * DayMinutes + time <= now'
         /\ medicines[med].exists
         /\ time \in medicines[med].times
         /\ ~MarkedTaken(med, time, day)
         /\ <<DueId(med, time), day - 1>> \in marked
         /\ <<DueId(med, time), day - 1>> \in gated )
       => DueId(med, time) \in live]_vars

\* the pre, due and post identities of a slot
DoseIds(med, time) == { getNotificationIds(med, time)[k] : k \in Kinds }

\* The dose services with reminders live: the schedule 00:02 and 20:00 is saved
\* and reconciled, doses are marked taken directly or through the queue, and
\* every cancel call of cancelDoseReminders succeeds.
TakenPayloads == { pl \in Payloads : pl.times = {2, 1200} }

NextTaken ==
  \/ \E payload \in TakenPayloads : SaveOnlineOk("p1", "m1", payload)
  \/ \E time \in Times, failAt \in {"none", "insert", "updateQty"} :
       \E alertEval \in {"fail", "ok"} :
         MarkDoseTaken("p1", "m1", time, failAt, FALSE, alertEval, 4)
  \/ EnqueueRead("p1")
  \/ EnqueueWrite("p1")

SpecTaken == InitQueue /\ [][NextTaken]_vars

\* C12: after markDoseTaken(M, T) has returned success, directly or through the
\* queue, with its cancel calls succeeding, the pre, due and post identities of
\* (M, T) are not live.
C12_TakenDoseNotLive ==
  \A p \in Procs :
    (ret[p].op = "markDoseTaken" /\ ret[p].status \in {"ok", "offline"}) =>
      DoseIds(ret[p].med, ret[p].slot) \cap live = {}

\* the 20:00 dose was queued and its reminders are gone, those of 00:02 are live
C12_Witness ==
  /\ ret["p1"] = [op |-> "markDoseTaken", med |-> "m1", slot |-> 1200, status |-> "offline"]
  /\ live = {getNotificationIds("m1", 2)["pre"]}

\* Medicines are saved, reconciled and deleted, with failing notification calls.
NextDelete ==
  \/ \E med \in Meds, payload \in Payloads : SaveOnlineOk("p1", med, payload)
  \/ \E med \in Meds, listOk \in BOOLEAN, deleteOk \in BOOLEAN :
       \E cancelOk \in AlmostAll(medicineNotifications(med, live)) :
         DeleteMedicine("p1", med, listOk, cancelOk, deleteOk)

SpecDelete == InitQueue /\ [][NextDelete]_vars

\* C13: after deleteMedicine(M) has returned successfully no live notification
\* whose identity is derived from M's id remains.
C13_DeleteCancelsAll ==
  \A p \in Procs :
    (ret[p].op = "deleteMedicine" /\ ret[p].status = "ok") =>
      medicineNotifications(ret[p].med, live) = {}

\* The stock monitor: the record of m1 starts at any quantity, with a refill
\* threshold of 0 or InitThreshold; evaluations run as the clock advances, the
\* notification call may fail, and the inventory is edited.
StockThresholds == {0, InitThreshold}

StockRows == { [exists |-> TRUE, times |-> {1200}, quantity |-> q, threshold |-> th] :
                 q \in 0..MaxQty, th \in StockThresholds }

StockPayloads == [times : {{1200}}, quantity : 0..MaxQty, threshold : StockThresholds]

InitStock ==
  /\ NoIdCall
  /\ NoTriggerCall
  /\ now = DayMinutes + 1
  /\ tz = 0
  /\ medicines \in { [m \in Meds |-> IF m = "m1" THEN row ELSE InitRow({1200})] :
                       row \in StockRows }
  /\ InitCommon

NextStock ==
  \/ \E med \in Meds, emitOk \in BOOLEAN : StockEvaluation("p1", med, emitOk)
  \/ \E payload \in StockPayloads : SaveOnlineOk("p1", "m1", payload)
  \/ \E t \in ClockInstants : Tick(t, FALSE)

SpecStock == InitStock /\ [][NextStock]_vars

\* an evaluation of the stock of med by caller p1 is made in this step
EvaluationStep(med) ==
  /\ calls' = calls + 1
  /\ ret'["p1"].op = "checkAndSendStockAlerts"
  /\ ret'["p1"].med = med

AlertsOf(med) == { a \in alerts : a.med = med }

\* the instant of the last alert emitted for med
LastAlertAt(med) == CHOOSE t \in { a.at : a \in AlertsOf(med) } :
                      \A a \in AlertsOf(med) : a.at <= t

\* any two alerts emitted for one medicine are at least 24 hours apart
AlertsApart ==
  \A a, b \in alerts :
    (a.med = b.med /\ a # b) => (a.at - b.at >= COOLDOWN \/ b.at - a.at >= COOLDOWN)

\* the evaluation of this step emits an alert for med
EmitsAlert(med) == \E a \in alerts' \ alerts : a.med = med /\ a.at = now

\* an evaluation is due a new alert: 24 hours or more after the last one, with
\* the quantity at or below the refill threshold
AlertDue(med) ==
  /\ AlertsOf(med) # {}
  /\ now - LastAlertAt(med) >= COOLDOWN
  /\ medicines[med].quantity <= medicines[med].threshold

NewAlertTypes(med) == { a.type : a \in { b \in alerts' \ alerts : b.med = med } }

NoCooldown(med) ==
  /\ ~CooldownActive(lastStockAlert[med], now)
  /\ ~CooldownActive(lastOutOfStock[med], now)

\* C15: with no cooldown active an evaluation decides from the quantity q and
\* the refill threshold t of the record: q = 0 gives an out-of-stock alert,
\* 0 < q <= t a low-stock alert, q > t no alert, and never both (evaluations
\* whose notification call fails are left aside).
C15_DecisionTable ==
  [][\A med \in Meds :
       (EvaluationStep(med) /\ NoCooldown(med) /\ stockErrors'[med] = stockErrors[med]) =>
          LET q == medicines[med].quantity
              t == medicines[med].threshold
          IN  NewAlertTypes(med) =
                IF q = 0 THEN {"out-of-stock"}
                ELSE IF q <= t THEN {"low-stock"}
                ELSE {}]_vars

\* the quantity a dose of DoseAmount leaves of q
AfterDose(q) == IF q >= DoseAmount THEN q - DoseAmount ELSE 0

\* a low-stock alert for med is emitted in this step
EmitsLowStock(med) ==
  \E a \in alerts' \ alerts : a.med = med /\ a.type = "low-stock" /\ a.at = now

\* the dose of this step brings the quantity of med into the low-stock range
\* while no cooldown is active
LowAfterDose(med) ==
  /\ AfterDose(medicines[med].quantity) > 0
  /\ AfterDose(medicines[med].quantity) <= medicines[med].threshold
  /\ ~CooldownActive(lastStockAlert[med], now)

IdMedicines == {<<"a">>, <<"b">>, <<"a", "-", "b">>}
IdHours == {1, 10}
IdMinutes == {1, 10}
IdStyles == {"padded", "bare"}

\* a time of day as the text a schedule holds: zero-padded or not
TimeText(h, m, style) ==
  IF style = "padded"
    THEN padStart(toString(h), 2, "0") \o <<":">> \o padStart(toString(m), 2, "0")
    ELSE toString(h) \o <<":">> \o toString(m)

IdTriples ==
  [medicineId : IdMedicines, hour : IdHours, minute : IdMinutes,
   style : IdStyles, kind : AllKinds]

\* getNotificationIds(medicineId, time)[kind] for each of the triples handed in
GetNotificationIds ==
  /\ idArgs # <<>>
  /\ idOut = <<>>
  /\ idOut' = [i \in 1..Len(idArgs) |->
                 getNotificationIdText(idArgs[i].medicineId,
                                       TimeText(idArgs[i].hour, idArgs[i].minute,
                                                idArgs[i].style),
                                       idArgs[i].kind)]
  /\ UNCHANGED <<now, tz, idArgs, calls, ret, qvars, rvars, nvars, svars, dvars, avars>>

InitIds ==
  /\ InitCommon
  /\ now = DayMinutes + 1080
  /\ tz = 0
  /\ medicines = [m \in Meds |-> InitRow({1200})]
  /\ idArgs \in [1..2 -> IdTriples]
  /\ idOut = <<>>
  /\ NoTriggerCall

NextIds == GetNotificationIds

SpecIds == InitIds /\ [][NextIds]_vars

\* C17: two triples get the same identifier exactly when medicineId and kind
\* are equal and the times are the same hour and minute, whatever their
\* padding; the identifier carries the time as zero-padded HH:MM, and deriving
\* it changes nothing else.
C17_IdentityInjective ==
  [][GetNotificationIds =>
       /\ (idOut'[1] = idOut'[2]) <=>
             /\ idArgs[1].medicineId = idArgs[2].medicineId
             /\ idArgs[1].kind = idArgs[2].kind
             /\ idArgs[1].hour = idArgs[2].hour
             /\ idArgs[1].minute = idArgs[2].minute
       /\ \A i \in 1..2 :
             idOut'[i] = idArgs[i].medicineId \o <<"-">>
                           \o TimeText(idArgs[i].hour, idArgs[i].minute, "padded")
                           \o <<"-">> \o KindText(idArgs[i].kind)
       /\ UNCHANGED <<now, tz, calls, ret, qvars, rvars, nvars, svars, dvars>>]_vars

\* two differently written times of the same medicine and kind got one identifier
C17_Witness ==
  /\ idOut # <<>>
  /\ idOut[1] = idOut[2]
  /\ idArgs[1].style # idArgs[2].style

\* ---------------------------------------------------------- the daily summary
SummaryPayloads == { pl \in Payloads : pl.times = {2, 1200} }

\* the clock stops at 20:10 of the first day and at 00:01 of the second
SummaryInstants == { t \in ClockInstants : t > DayMinutes + 1080 /\ t <= 2 * DayMinutes + 1 }

\* Sign-ins that reschedule, sign-outs, saves of m1 and the clock.
NextSummary ==
  \/ \E user \in Users, order \in FetchOrders, fetchOk, summaryListOk, summaryOk \in BOOLEAN,
        listOk \in [Meds -> BOOLEAN] :
       RescheduleAll("p1", user, order, fetchOk, listOk, summaryListOk, summaryOk)
  \/ \E listOk \in BOOLEAN, kept \in SUBSET live : Logout("p1", listOk, kept)
  \/ \E pl \in SummaryPayloads : SaveOnlineOk("p1", "m1", pl)
  \/ \E t \in SummaryInstants : Tick(t, TRUE)

SpecSummary == InitQueue /\ [][NextSummary]_vars

SummariesOf(user) == { s \in summaries : s.user = user }

\* C18: at most one daily summary per user is live, its trigger is 21:00
\* repeating daily, and no per-medicine summary identity is live or scheduled
\* by a pass.
C18_OneDailySummary ==
  /\ \A user \in Users : Cardinality(SummariesOf(user)) <= 1
  /\ \A s \in summaries : s.trigger = [hour |-> 21, minute |-> 0] /\ s.repeats
  /\ \A n \in live : n.kind # "summary"
  /\ \A n \in lastPass.sched : n.kind # "summary"

\* the third call was a reschedule that ran to its end, with dose reminders
\* and the summary of u1 live
C18_Witness ==
  /\ calls = MaxCalls
  /\ ret["p1"].op = "rescheduleAll"
  /\ ret["p1"].status = "ok"
  /\ summaries = {DailySummary("u1")}
  /\ \E n \in live : n.med = "m1"
  /\ \E n \in live : n.med = "m2"

\* -------------------------------------------------------- the drain's calls
\* C19: during a connected drain the processor has been called on exactly the
\* first actions of the queue read, once each and in queue order, every call
\* settled (completed or thrown) before the next one is made; a throw does not
\* stop the loop, so the finished drain has called it on every action.
C19_OncePerActionInOrder ==
  /\ dpc \in {"loop", "done"} /\ connected =>
       /\ dcalled = SubSeq(dqueue, 1, Len(dcalled))
       /\ Len(doutcome) = Len(dcalled)
       /\ didx = Len(dcalled) + 1
  /\ dpc = "done" /\ connected => dcalled = dqueue

\* a finished connected drain of two different actions whose first call threw
C19_Witness ==
  /\ dpc = "done"
  /\ connected
  /\ Len(dqueue) >= 2
  /\ dqueue[1] # dqueue[2]
  /\ doutcome[1] = "throw"
  /\ dcalled = dqueue

\* ------------------------------------------------------------ enqueueAction
\* the step in which the enqueueAction of caller p writes the queue and returns
EnqueueReturns(p) == pc[p] = "enq_write" /\ pc'[p] = "idle"

\* C20: enqueueAction is append-only: when it returns, the persisted queue is
\* the queue persisted just before followed by the action with its creation
\* timestamp, the existing entries and their order unchanged.
C20_AppendOnly ==
  [][\A p \in Procs :
       EnqueueReturns(p) =>
         /\ Len(queueStore') = Len(queueStore) + 1
         /\ SubSeq(queueStore', 1, Len(queueStore)) = queueStore
         /\ queueStore'[Len(queueStore')] = [pend[p] EXCEPT !.createdAt = <<now, stamp'>>]]_vars

\* ------------------------------------------------------- edits made offline
\* two different edits of a schedule: 00:02 alone, or 00:02 and 20:00
EditPayloads == { pl \in Payloads : 2 \in pl.times }

\* One caller edits m1 while the upsert fails, one edit after the other; the
\* queue is drained, the processor's remote call succeeding or rejecting.
NextEdits ==
  \/ \E payload \in EditPayloads : SaveMedicineFallback("p1", "m1", payload)
  \/ EnqueueRead("p1")
  \/ EnqueueWrite("p1")
  \/ \E isConnected \in BOOLEAN : DrainProbe(isConnected)
  \/ DrainOffline
  \/ DrainRead
  \/ \E outcome \in {"ok", "throw"} : DrainStep(outcome)
  \/ DrainWrite

SpecEdits == InitQueue /\ [][NextEdits]_vars

\* the edit enqueued last
LatestEdit == CHOOSE a \in returned : \A b \in returned : b.createdAt[2] <= a.createdAt[2]

\* every edit made has been enqueued and applied, and nothing is left to drain
FullyDrained ==
  /\ pc["p1"] = "idle"
  /\ dpc \in {"idle", "done"}
  /\ queueStore = <<>>
  /\ returned \subseteq applied

\* C21: two edits of a medicine made offline are both queued, and once the
\* queue has fully drained the remote record is the second edit.
C21_LatestEditWins ==
  (Cardinality(returned) = 2 /\ FullyDrained) =>
     /\ medicines["m1"].times = LatestEdit.times
     /\ medicines["m1"].quantity = LatestEdit.quantity

\* ------------------------------------------------- replay of an applied dose
\* the drain hands its next action to the processor in this step
ReplayStep == dpc = "loop" /\ didx <= Len(dqueue) /\ didx' = didx + 1

\* the dose of a queued MARK_TAKEN action has already been applied remotely
AlreadyApplied(action) ==
  /\ action.type = "MARK_TAKEN"
  /\ <<action.med, action.slot, LocalDay(action.createdAt[1])>> \in DoseKeys
  /\ decrements[<<action.med, action.slot, LocalDay(action.createdAt[1])>>] >= 1

\* C22: a queued MARK_TAKEN action whose dose has already been applied remotely
\* is a failed action on replay: the remote store is left as it is and the
\* action is kept for the next drain.
C22_AppliedDoseStaysQueued ==
  [][(ReplayStep /\ AlreadyApplied(dqueue[didx])) =>
        /\ UNCHANGED rvars
        /\ dremaining' = Append(dremaining, dqueue[didx])]_vars

\* ------------------------------------------------ the fallback of markDoseTaken
\* One caller marks doses, any request of the call failing, and saves the
\* schedule; what the fallback hands over is enqueued.
NextFallback ==
  \/ \E time \in Times, failAt \in FailPoints, checkErr \in BOOLEAN :
       \E alertEval \in {"fail", "ok"}, okCount \in {0, 4} :
         MarkDoseTaken("p1", "m1", time, failAt, checkErr, alertEval, okCount)
  \/ \E payload \in { pl \in Payloads : pl.times = {1200} } : SaveOnlineOk("p1", "m1", payload)
  \/ EnqueueRead("p1")
  \/ EnqueueWrite("p1")

SpecFallback == InitQueue /\ [][NextFallback]_vars

\* a markDoseTaken call of caller p for (med, time) runs in this step and is not
\* rejected as already taken or not scheduled
UnrejectedCall(p, med, time) ==
  /\ calls' = calls + 1
  /\ ret'[p].op = "markDoseTaken"
  /\ ret'[p].med = med
  /\ ret'[p].slot = time
  /\ ret'[p].status \notin {"already_taken", "not_scheduled"}

\* the direct call went through: the log is inserted and the quantity decremented
DirectSucceeded(med, time) ==
  /\ logs' # logs
  /\ decrements'[<<med, time, LocalDay(now)>>] = decrements[<<med, time, LocalDay(now)>>] + 1
  /\ ret'["p1"].status = "ok"

\* C23: a direct markDoseTaken that fails otherwise than by one of the two
\* rejections hands exactly one MARK_TAKEN action with the same medicine, time
\* and quantity to enqueueAction, which appends it to the queue it read, and the
\* caller gets the offline result; a call that succeeds enqueues nothing.
C23_FailureEnqueuesOnce ==
  [][/\ \A med \in Meds, time \in Times :
          UnrejectedCall("p1", med, time) =>
             \/ /\ ret'["p1"].status = "ok"
                /\ DirectSucceeded(med, time)
                /\ UNCHANGED <<pc, pend, queueStore>>
             \/ /\ ret'["p1"].status = "pending"
                /\ pc'["p1"] = "enq_read"
                /\ pend'["p1"].type = "MARK_TAKEN"
                /\ pend'["p1"].med = med
                /\ pend'["p1"].slot = time
                /\ pend'["p1"].quantity = DoseAmount
                /\ queueStore' = queueStore
     /\ (EnqueueReturns("p1") /\ pend["p1"].type = "MARK_TAKEN") =>
          /\ Len(queueStore') = Len(qcopy["p1"]) + 1
          /\ SubSeq(queueStore', 1, Len(qcopy["p1"])) = qcopy["p1"]
          /\ queueStore'[Len(queueStore')] = [pend["p1"] EXCEPT !.createdAt = <<now, stamp'>>]
          /\ ret'["p1"].status = "offline"
          /\ pend'["p1"] = NoAction]_vars

\* a call whose quantity update failed has returned the offline result with
\* its action in the queue, and an earlier call went through
C23_Witness ==
  /\ ret["p1"].op = "markDoseTaken"
  /\ ret["p1"].status = "offline"
  /\ pc["p1"] = "idle"
  /\ Len(queueStore) = 1
  /\ queueStore[1].type = "MARK_TAKEN"
  /\ queueStore[1].slot = ret["p1"].slot
  /\ \E k \in DoseKeys : decrements[k] >= 1

\* ------------------------------------------------- the fallback of saveMedicine
\* m1 exists; m2 does not, so that its id is free for a new medicine
InitSave ==
  /\ InitCommon
  /\ NoIdCall
  /\ NoTriggerCall
  /\ now = DayMinutes + 1080
  /\ tz = 0
  /\ medicines = [m \in Meds |-> IF m = "m1" THEN InitRow({1200}) ELSE NoRow]

\* the signed-in user saves new medicines and edits existing ones, online or
\* not; the queue is drained
NextSave ==
  \/ \E payloadId \in Meds \cup {NoId}, generated \in Meds, payload \in EditPayloads,
        upsertOk \in BOOLEAN :
       SaveMedicine("p1", payloadId, generated, payload, upsertOk)
  \/ EnqueueRead("p1")
  \/ EnqueueWrite("p1")
  \/ \E isConnected \in BOOLEAN : DrainProbe(isConnected)
  \/ DrainOffline
  \/ DrainRead
  \/ \E outcome \in {"ok", "throw"} : DrainStep(outcome)
  \/ DrainWrite

SpecSave == InitSave /\ [][NextSave]_vars

\* the id of the record saveMedicine builds: the payload's, or the fresh one
StableId(payloadId, generated) == IF payloadId \in Meds THEN payloadId ELSE generated

TerminalNotScheduled ==
  /\ ret'["p1"].status = "not_scheduled"
  /\ UNCHANGED <<logs, medicines, decrements, live, pc, pend, queueStore>>

LiveForRemovedTimes(med, times) ==
  { n \in medicineNotifications(med, live) :
      \A time \in times : n.time # normalizeTimeId(time) }

\* C26: after a pass for a medicine whose notification calls all succeeded, no
\* notification of that medicine is live for a time that is not in the schedule
\* the pass was given, also when the schedule has no time left.
C26_RemovedTimesCancelled ==
  PassSucceeded /\ lastPass.med \in Meds =>
    LiveForRemovedTimes(lastPass.med, lastPass.times) = {}

\* ------------------------------------------------------ the sent-today record
\* the identities of the dose reminders
ReminderIds == { NotifId(med, time, kind) : med \in Meds, time \in Times, kind \in Kinds }

\* C27: the sent-today record rolls over at local midnight: whatever the
\* device's UTC offset, hasNotificationBeenSentToday(id) is true now only if id
\* was marked sent on the local calendar day of now, the day of the gate.
C27_SentRecordIsLocalDay ==
  \A id \in ReminderIds :
    hasNotificationBeenSentToday(id, now, sentKeys) => <<id, LocalDay(now)>> \in marked

\* C28: a sent-today record, once true for (identity, day), is not removed by
\* any operation of the engine: reconciliation, dose taken, stock evaluation,
\* sign-out, sign-in.
C28_SentRecordKept ==
  [][\A key \in sentKeys : key \in sentKeys']_vars

\* --------------------------------------------------------------- the listeners
\* Schedules are saved, the clock runs with the app in the foreground or not,
\* delivered due reminders are tapped.
NextListen ==
  \/ \E payload \in ReconPayloads : SaveOnlineOk("p1", "m1", payload)
  \/ \E t \in ClockInstants, recv \in BOOLEAN : Tick(t, recv)
  \/ \E id \in { n \in tray : n.kind = "due" } : NotificationResponse(id)

SpecListen == InitRecon /\ [][NextListen]_vars

\* C29: with the listeners started, a delivery of id alone, and a tap on id
\* alone, each set the sent-today record of id for the day of the event, so
\* that hasNotificationBeenSentToday(id) is true once the event is handled.
C29_EitherEventMarks ==
  [][/\ \A id \in ReminderIds :
          NotificationResponse(id) => hasNotificationBeenSentToday(id, now, sentKeys')
     /\ \A t \in ClockInstants :
          Tick(t, TRUE) =>
            \A id \in live : \A f \in FireInstants(id, now, t) :
               hasNotificationBeenSentToday(id, f, sentKeys')]_vars

\* a due reminder delivered while the app was not running was tapped and is
\* recorded for today, and another reminder is recorded by its delivery alone
C29_Witness ==
  /\ \E id \in ReminderIds :
       /\ id.kind = "due"
       /\ id \notin tray
       /\ hasNotificationBeenSentToday(id, now, sentKeys)
       /\ \E other \in tray :
            /\ other.time = id.time
            /\ ~hasNotificationBeenSentToday(other, now, sentKeys)
  /\ \E id \in tray : hasNotificationBeenSentToday(id, now, sentKeys)

\* ---------------------------------------------- isolation between medicines
\* a reschedule of caller p1 runs in this step
RescheduleCall == calls' = calls + 1 /\ ret'["p1"].op = "rescheduleAll"

\* C30: in a reschedule over all medicines whose fetch succeeded, a medicine
\* whose own notification calls succeed is reconciled (its expected reminders
\* are live afterwards) whatever fails for the other medicines.
C30_FailureIsIsolated ==
  [][RescheduleCall =>
       \A user \in Users, order \in FetchOrders, listOk \in [Meds -> BOOLEAN],
          summaryListOk, summaryOk \in BOOLEAN :
         RescheduleAll("p1", user, order, TRUE, listOk, summaryListOk, summaryOk)
           /\ ret'["p1"].status # "skipped" =>
              \A med \in Meds :
                 (listOk[med] /\ medicines[med].exists) =>
                    expectedIds(med, medicines[med].times, now, sentKeys) \subseteq live']_vars

\* ------------------------------------------- reconciliation on schedule change
\* C31: every change of a medicine's times in the remote record, whether a save
\* applied online or a queued save replayed by the sync, comes with a
\* reconciliation pass for that medicine over the new times.
C31_ScheduleChangeReconciled ==
  [][\A med \in Meds :
       medicines'[med].times # medicines[med].times =>
          /\ lastPass'.med = med
          /\ lastPass'.times = medicines'[med].times]_vars

\* ------------------------------------------------------ the trigger arithmetic
\* every schedule time of the day, 00:00..23:59, in minutes
DayTimes == 0..(DayMinutes - 1)

InitTrig ==
  /\ InitCommon
  /\ NoIdCall
  /\ now = DayMinutes + 1080
  /\ tz = 0
  /\ medicines = [m \in Meds |-> InitRow({1200})]
  /\ trigIn \in DayTimes
  /\ trigOut = <<>>

NextTrig == ScheduleTriggers

SpecTrig == InitTrig /\ [][NextTrig]_vars

\* the minute of the day a trigger stands for
MinuteOfTrigger(trigger) == trigger.hour * 60 + trigger.minute

WellFormedTrigger(trigger) == trigger.hour \in 0..23 /\ trigger.minute \in 0..59

\* C32: for every schedule time T the pre trigger is (T - 5 minutes) mod 24h,
\* the post trigger is (T + 5 minutes) mod 24h, each with its hour in 0..23 and
\* its minute in 0..59, and the due trigger is T.
C32_TriggersRollOver ==
  trigOut # <<>> =>
    /\ WellFormedTrigger(trigOut.pre)
    /\ WellFormedTrigger(trigOut.post)
    /\ MinuteOfTrigger(trigOut.pre) = (trigIn + DayMinutes - 5) % DayMinutes
    /\ MinuteOfTrigger(trigOut.post) = (trigIn + 5) % DayMinutes
    /\ MinuteOfTrigger(trigOut.due) = trigIn

\* 00:02 has been computed: its pre trigger is 23:57 of the day before
C32_Witness ==
  /\ trigIn = 2
  /\ trigOut # <<>>
  /\ trigOut.pre = [hour |-> 23, minute |-> 57]
  /\ trigOut.post = [hour |-> 0, minute |-> 7]

\* ------------------------------------------------ the shared cooldown bucket
\* The stock monitor across sessions: evaluations of m1 as the clock advances,
\* edits of the inventory, and the user signing out in between.
NextAlerts ==
  \/ \E emitOk \in BOOLEAN : StockEvaluation("p1", "m1", emitOk)
  \/ \E payload \in StockPayloads : SaveOnlineOk("p1", "m1", payload)
  \/ \E t \in ClockInstants : Tick(t, FALSE)
  \/ \E listOk \in BOOLEAN : Logout("p1", listOk, {})

SpecAlerts == InitStock /\ [][NextAlerts]_vars

\* the class of alert the quantity of the record calls for, if any
ClassCalledFor(row) ==
  IF row.quantity = 0 THEN {"out-of-stock"}
  ELSE IF row.quantity <= row.threshold THEN {"low-stock"}
  ELSE {}

\* an alert of either class was emitted for med less than 24 hours ago
AlertedWithinWindow(med) == \E a \in AlertsOf(med) : now - a.at < COOLDOWN

\* C33: the two alert classes share one cooldown bucket per medicine: an
\* evaluation less than 24 hours after an alert of either class emits no alert
\* of either class, and an evaluation 24 hours or more after the last alert
\* emits the class the quantity then calls for.
C33_SharedCooldownBucket ==
  [][\A med \in Meds :
       EvaluationStep(med) =>
          /\ AlertedWithinWindow(med) => NewAlertTypes(med) = {}
          /\ (AlertsOf(med) # {} /\ ~AlertedWithinWindow(med))
               => NewAlertTypes(med) = ClassCalledFor(medicines[med])]_vars

\* C34: the cooldown records of a medicine are written only by an evaluation
\* that emitted an alert: an evaluation that emits nothing leaves them as they
\* were, and no evaluation raises an error to its caller.
C34_CooldownWrittenOnEmission ==
  [][\A med \in Meds :
       EvaluationStep(med) =>
          /\ ret'["p1"].status = "done"
          /\ NewAlertTypes(med) = {} =>
               /\ lastStockAlert'[med] = lastStockAlert[med]
               /\ lastOutOfStock'[med] = lastOutOfStock[med]]_vars

\* ---------------------------------------------- evaluations in flight together
\* Evaluations of m1 started by two callers (two markDoseTaken calls in
\* flight), each advancing one request at a time, as the clock advances.
NextEvals ==
  \/ \E p \in Procs : EvalStart(p, "m1")
  \/ \E p \in Procs : EvalSendRead(p)
  \/ \E p \in Procs, emitOk \in BOOLEAN : EvalEmit(p, emitOk)
  \/ \E p \in Procs : EvalRecord(p)
  \/ \E p \in Procs : EvalStamp(p)
  \/ \E t \in ClockInstants : Tick(t, FALSE)

SpecEvals == InitStock /\ [][NextEvals]_vars

\* C35: however the requests of the evaluations of one medicine interleave,
\* at most one alert is emitted for it in any 24-hour window.
C35_InterleavedEvaluationsOneAlert ==
  \A a \in alerts :
    Cardinality({ b \in AlertsOf(a.med) : a.at <= b.at /\ b.at - a.at < COOLDOWN }) <= 1

\* ------------------------------------------- a cancellation that fails on a dose
\* C36: a markDoseTaken whose cancel calls all fail returns what it would return,
\* and records or enqueues the dose as it would, had every cancel call succeeded.
C36_CancelFailureNotPropagated ==
  [][\A med \in Meds, time \in Times :
       DirectCall(med, time) =>
         \A failAt \in FailPoints, checkErr \in BOOLEAN, alertEval \in {"fail", "ok"} :
           MarkDoseTaken("p1", med, time, failAt, checkErr, alertEval, 0) =>
             LET succeeded == MarkDirect(med, time, failAt, checkErr, alertEval, 4) IN
             /\ logs' = succeeded.logs
             /\ medicines' = succeeded.medicines
             /\ decrements' = succeeded.dec
             /\ ret'["p1"].status =
                  (IF succeeded.status = "fallback" THEN "pending" ELSE succeeded.status)
             /\ pend'["p1"] =
                  (IF succeeded.status = "fallback" THEN MarkTakenAction(med, time)
                   ELSE pend["p1"])]_vars

\* the dose of 20:00 was recorded online although no reminder of it could be
\* cancelled: they are all still scheduled
C36_Witness ==
  /\ ret["p1"].op = "markDoseTaken"
  /\ ret["p1"].status = "ok"
  /\ logs # {}
  /\ DoseIds("m1", 1200) \subseteq live

\* ------------------------------------------------------ a duplicated login event
\* every list call of the passes succeeds
AllListsOk == [m \in Meds |-> TRUE]

\* the schedules saved around a login: 20:00 alone, or 00:02 and 20:00
LoginPayloads == { pl \in Payloads : 1200 \in pl.times }

\* Two auth-state-change events with a session are delivered on a device whose
\* one-time cleanup has not run; their handlers advance one await at a time,
\* every call succeeding, and the schedule of m1 is saved in between.
NextLogin ==
  \/ \E payload \in LoginPayloads : SaveOnlineOk("p1", "m1", payload)
  \/ \E h \in Handlers : AuthEvent(h, TRUE)
  \/ \E h \in Handlers : LoginReadFlag(h)
  \/ \E h \in Handlers : LoginCancelAll(h, TRUE)
  \/ \E h \in Handlers : LoginSetFlag(h)
  \/ \E h \in Handlers, order \in FetchOrders :
       LoginReschedule(h, "p1", "u1", order, TRUE, AllListsOk, TRUE, TRUE)

SpecLogin == InitQueue /\ [][NextLogin]_vars

\* the notifications the schedules of all the user's medicines call for now
DesiredNow ==
  UNION { expectedIds(med, medicines[med].times, now, sentKeys) :
            med \in { m \in Meds : medicines[m].exists } }

\* C37: once the handlers of both login events have finished, the scheduled
\* notifications are the desired set of all the user's medicines, as after a
\* single login event.
C37_DuplicateLoginConverges ==
  (\A h \in Handlers : loginPc[h] = "done") => live = DesiredNow

\* ------------------------------------------------ the frame of one medicine
\* the ids of the medicines and users as the UUIDs they are, made of digits so
\* that they are as close to the digits of a time as a UUID can be
MedicineIdText(med) == IF med = "m1" THEN UUIDText("1", "8") ELSE UUIDText("2", "9")

UserIdText(user) == IF user = "u1" THEN UUIDText("0", "a") ELSE UUIDText("1", "b")

\* the identifier of a scheduled reminder as the string handed to the OS
IdentifierText(n) ==
  getNotificationIdText(MedicineIdText(n.med), TimeText(n.time[1], n.time[2], "padded"),
                        n.kind)

\* `daily-summary-${userId}`
DailySummaryText(user) ==
  <<"d", "a", "i", "l", "y", "-", "s", "u", "m", "m", "a", "r", "y", "-">>
    \o UserIdText(user)

\* Both medicines are scheduled and the daily summary is set up by a reschedule;
\* then schedules are saved, doses marked and medicines deleted, the
\* notification calls failing or not.
NextFrame ==
  \/ \E order \in FetchOrders :
       RescheduleAll("p1", "u1", order, TRUE, [m \in Meds |-> TRUE], TRUE, TRUE)
  \/ \E med \in Meds, payload \in Payloads : SaveOnline("p1", med, payload)
  \/ \E med \in Meds, failAt \in {"none", "insert"}, okCount \in {0, 2, 4} :
       MarkDoseTaken("p1", med, 1200, failAt, FALSE, "ok", okCount)
  \/ EnqueueRead("p1")
  \/ EnqueueWrite("p1")
  \/ \E med \in Meds, listOk \in BOOLEAN, deleteOk \in BOOLEAN :
       \E cancelOk \in AlmostAll(medicineNotifications(med, live)) :
         DeleteMedicine("p1", med, listOk, cancelOk, deleteOk)

SpecFrame == InitQueue /\ [][NextFrame]_vars

\* a pass, a dose-taken cancellation or a delete for med is made in this step
OwnCall(med) ==
  /\ calls' = calls + 1
  /\ ret'["p1"].op \in {"saveMedicine", "markDoseTaken", "deleteMedicine"}
  /\ ret'["p1"].med = med

\* the filter on the identifier strings picks the medicine's notifications and
\* no others, and never the daily summary
FilterPicksOwn(scheduled) ==
  /\ \A n \in scheduled, med \in Meds :
       includes(IdentifierText(n), MedicineIdText(med)) <=> BelongsTo(n, med)
  /\ \A s \in summaries, med \in Meds :
       ~includes(DailySummaryText(s.user), MedicineIdText(med))

\* C38: a reconciliation pass, a dose-taken cancellation or a delete for a
\* medicine leaves the scheduled notifications of every other medicine and the
\* daily summary as they are.
C38_OtherMedicinesUntouched ==
  [][\A med \in Meds :
       OwnCall(med) =>
          /\ FilterPicksOwn(live \cup live')
          /\ { n \in live' : n.med # med } = { n \in live : n.med # med }
          /\ summaries' = summaries]_vars

\* a pass for m1 has just cancelled reminders of m1 while those of m2 and the
\* daily summary are scheduled
C38_Witness ==
  /\ ret["p1"].op = "saveMedicine"
  /\ ret["p1"].med = "m1"
  /\ lastPass.cancel # {}
  /\ DoseIds("m2", 1200) \subseteq live
  /\ summaries # {}

\* --------------------------------------------------------- signing out and in
\* One user's sessions on the device: login events and their handler, stock
\* evaluations, a dose marked while offline, and sign-outs whose cancel calls
\* all succeed, each followed by the event without a session.
NextSession ==
  \/ \E signedIn \in BOOLEAN : AuthEvent("h1", signedIn)
  \/ LoginReadFlag("h1")
  \/ \E cancelOk \in BOOLEAN : LoginCancelAll("h1", cancelOk)
  \/ LoginSetFlag("h1")
  \/ \E order \in FetchOrders :
       LoginReschedule("h1", "p1", "u1", order, TRUE, [m \in Meds |-> TRUE], TRUE, TRUE)
  \/ \E emitOk \in BOOLEAN : StockEvaluation("p1", "m1", emitOk)
  \/ MarkDoseTaken("p1", "m1", 1200, "insert", FALSE, "ok", 4)
  \/ EnqueueRead("p1")
  \/ EnqueueWrite("p1")
  \/ \E listOk \in BOOLEAN : Logout("p1", listOk, {})

SpecSession == InitStock /\ [][NextSession]_vars

\* clearNotificationStateOnLogout completes in this step without a failing call
LogoutCompletes ==
  /\ calls' = calls + 1
  /\ ret'["p1"].op = "logout"
  /\ ret'["p1"].status = "ok"

\* the handler of a login event reaches its reschedule right after a sign-out
LoginAfterLogout(h) ==
  /\ ret["p1"].op = "logout"
  /\ ret["p1"].status = "ok"
  /\ ~rescheduleAttempted
  /\ loginPc[h] = "resched"
  /\ loginPc'[h] = "done"

\* C39: a sign-out that completes leaves no notification scheduled and removes
\* every sent-today flag, every stock-alert cooldown record and the
\* last-reschedule stamp, while the offline queue is left as it was; the login
\* that follows runs the full reschedule even on the same day.
C39_LogoutClearsState ==
  [][/\ LogoutCompletes =>
          /\ live' = {}
          /\ summaries' = {}
          /\ sentKeys' = {}
          /\ \A med \in Meds : lastStockAlert'[med] = None /\ lastOutOfStock'[med] = None
          /\ lastReschedule' = None
          /\ queueStore' = queueStore
     /\ \A h \in Handlers :
          LoginAfterLogout(h) =>
             /\ ret'["p1"].op = "rescheduleAll"
             /\ ret'["p1"].status = "ok"]_vars

====
